---- MODULE Spec2Model ----
(***************************************************************************)
(* UTransformerComponent (RuntimeTransformer plugin): the selection set,   *)
(* the gizmo, the transform domain and the authority/proxy replication     *)
(* protocol of TransformerComponent.cpp, as a state machine.               *)
(*                                                                         *)
(* One component instance lives on the authority and one on the proxy that *)
(* owns the player controller.  Every handler of the source is an operator *)
(* from participant state to participant state; an action applies one      *)
(* handler as a whole and routes the remote calls it made.                 *)
(***************************************************************************)
EXTENDS Integers, Sequences, FiniteSets, TLC

(***************************************************************************)
(* Bounds of the model.                                                    *)
(***************************************************************************)
MaxClones == 2      \* clones that can be spawned in one behaviour
MaxQueue == 2       \* remote calls in flight per direction
MaxAge == 1         \* clock saturation, in poll intervals
MaxListLen == 2     \* length of the lists passed to SelectMultiple*
MaxCalls == 3       \* replicated traces and clone requests in one behaviour
MaxSteps == 4       \* ticks and replicated traces together in one behaviour
MaxRaw == 1         \* greatest amount the gizmo reports for one tick
MaxParts == 4       \* scene components of the actor whose parts CloneComponents duplicates

(***************************************************************************)
(* Program constants.  Time is counted in whole poll intervals             *)
(* (CloneReplicationCheckFrequency, 0.05 s); MinimumCloneReplicationTime   *)
(* is 0.01 s, which is 0 whole intervals.                                  *)
(***************************************************************************)
MinimumCloneReplicationTime == 0

(***************************************************************************)
(* Objects.  A scene component is a positive number, nullptr is 0.  An     *)
(* actor is named by the component it was created with as root.  The level *)
(* holds actor 1 with root 1 and child part 2, and actor 3 with root 3;    *)
(* clones get the following numbers.                                       *)
(***************************************************************************)
Null == 0
BaseObjects == {1, 2, 3}
CloneIds == (Cardinality(BaseObjects) + 1)..(Cardinality(BaseObjects) + MaxClones)
Objects == BaseObjects \cup CloneIds
NoClone == [of |-> Null, asActor |-> FALSE]

Authority == "Authority"
AutonomousProxy == "AutonomousProxy"
Participants == {Authority, AutonomousProxy}
Proxies == Participants \ {Authority}

TD_None == "TD_None"
Domains == {"TD_None", "TD_X_Axis", "TD_Y_Axis"}
NoGizmoHit == "NoGizmoHit"
TransformationTypes == {"TT_NoTransform", "TT_Translation", "TT_Rotation", "TT_Scale"}
SpaceTypes == {"ST_Local", "ST_World"}

\* FTransform() with zero scale, the value ResetDeltaTransform stores.  A transform is an
\* amount along one axis; composing two transforms adds their amounts.
ZeroDelta == 0
\* a TMap of the snapping settings without an entry for the kind
NoSnappingValue == 0

VARIABLES
    part,             \* per participant: the fields of its UTransformerComponent and its view of the world
    toServer,         \* Server RPCs in flight, proxy -> authority
    toClient,         \* NetMulticast RPCs in flight, authority -> proxy
    HasBegunPlay,     \* clones whose BeginPlay has completed on the authority
    age,              \* per clone: time since it was spawned (saturating)
    LocalController,  \* the participant whose player controller is the local one
    added,            \* per participant: objects reported selected and not yet reported deselected
    lastOp,           \* the handler run by the last step, with what it notified and sent
    calls,            \* number of calls of the replicated interface so far
    lastCall,         \* the last call of the replicated interface
    scene             \* the attachment hierarchy of an actor and the position of CloneComponents in it

vars == <<part, toServer, toClient, HasBegunPlay, age, LocalController, added, lastOp,
          calls, lastCall, scene>>

(***************************************************************************)
(* Helpers on sequences.                                                   *)
(***************************************************************************)
Range(s) == {s[i] : i \in 1..Len(s)}

\* TArray::Find: index of the first occurrence, 0 for INDEX_NONE
Find(s, x) ==
    IF \E i \in 1..Len(s) : s[i] = x
    THEN CHOOSE i \in 1..Len(s) : s[i] = x /\ \A j \in 1..(i - 1) : s[j] # x
    ELSE 0

\* TArray::RemoveAt
RemoveAt(s, i) == SubSeq(s, 1, i - 1) \o SubSeq(s, i + 1, Len(s))

\* TArray::RemoveAtSwap(Index, Count): the holes are filled from the end of the array
RemoveAtSwap(s, index, count) ==
    LET n == Len(s)
        moved == IF n - (index - 1) - count < count THEN n - (index - 1) - count ELSE count
    IN  IF n - count <= 0 THEN <<>>
        ELSE [i \in 1..(n - count) |->
                IF i >= index /\ i < index + moved THEN s[n - moved + (i - index) + 1] ELSE s[i]]

\* the element of a singleton: { e(x) : x \in {v} } computes v once, like a local variable
The(S) == CHOOSE v \in S : TRUE

NoDuplicates(s) == \A i, j \in 1..Len(s) : s[i] = s[j] => i = j

SeqsUpTo(S, n) == UNION {[1..k -> S] : k \in 0..n}

(***************************************************************************)
(* The world: owners and the FocusableObject interface.                    *)
(***************************************************************************)
BaseOwner(c) == IF c = 2 THEN 1 ELSE c
FocusableActors == {1}     \* actor classes implementing UFocusableObject
FocusableComponents == {2} \* component classes implementing UFocusableObject
BaseMovable == {1}         \* the objects placed with Mobility Movable; the others are Static

RECURSIVE GetOwner(_, _)
GetOwner(st, c) ==
    IF c \in BaseObjects THEN BaseOwner(c)
    ELSE IF c \notin CloneIds \/ st.clones[c] = NoClone THEN Null
    ELSE IF st.clones[c].asActor THEN c
    ELSE GetOwner(st, st.clones[c].of)

GetRootComponent(a) == a

RECURSIVE ClassOf(_, _)
ClassOf(st, c) ==
    IF c \in BaseObjects THEN c
    ELSE IF c \notin CloneIds \/ st.clones[c] = NoClone THEN Null
    ELSE ClassOf(st, st.clones[c].of)

\* the ShouldSelect hook; its native implementation accepts everything
ShouldSelect(owner, c) == TRUE

(***************************************************************************)
(* Notifications and remote calls.                                         *)
(***************************************************************************)
Note(n, c, sel, impl) == [n |-> n, c |-> c, sel |-> sel, impl |-> impl]
Msg(t, d, o, list, b1, b2) == [t |-> t, d |-> d, o |-> o, list |-> list, b1 |-> b1, b2 |-> b2]

NewGizmo(type) == [type |-> type, destroyed |-> FALSE, progress |-> FALSE, domain |-> TD_None]
\* the value of a null Gizmo pointer
NoGizmo == [type |-> "nullptr", destroyed |-> FALSE, progress |-> FALSE, domain |-> TD_None]
NoClass == "nullptr"

\* UTransformerComponent::UTransformerComponent
InitComponent(bToggle) ==
    [ SelectedComponents |-> <<>>,
      Gizmo |-> NoGizmo,
      CurrentTransformation |-> "TT_Translation",
      CurrentDomain |-> TD_None,
      CurrentSpaceType |-> "ST_World",
      bComponentBased |-> FALSE,
      bRotateOnLocalAxis |-> FALSE,
      bForceMobility |-> FALSE,
      bTransformUFocusableObjects |-> TRUE,
      SnappingEnabled |-> [t \in TransformationTypes |-> FALSE],
      SnappingValues |-> [t \in TransformationTypes |-> NoSnappingValue],
      Movable |-> BaseMovable,
      WorldTransform |-> [c \in Objects |-> 0],
      bToggleSelectedInMultiSelection |-> bToggle,
      AccumulatedDeltaTransform |-> ZeroDelta,
      NetworkDeltaTransform |-> ZeroDelta,
      bResyncSelection |-> FALSE,
      ResyncSelectionTimerHandle |-> FALSE,
      UnreplicatedComponentClones |-> <<>>,
      CheckUnrepTimerHandle |-> FALSE,
      timerElapsed |-> 0,
      clones |-> [k \in CloneIds |-> NoClone],
      alive |-> BaseObjects,
      dead |-> {},
      notes |-> <<>>,
      out |-> <<>> ]

GetOwnerRole(p) == p

(***************************************************************************)
(* Focus notifications.                                                    *)
(***************************************************************************)
GetUFocusable(st, c) ==
    IF c = Null THEN FALSE
    ELSE IF st.bComponentBased THEN ClassOf(st, c) \in FocusableComponents
    ELSE GetOwner(st, c) # Null /\ ClassOf(st, GetOwner(st, c)) \in FocusableActors

Select(st, c) ==
    IF GetUFocusable(st, c)
    THEN [st EXCEPT !.notes = Append(@, Note("Focus", c, TRUE, TRUE))]
    ELSE st

Deselect(st, c) ==
    IF GetUFocusable(st, c)
    THEN [st EXCEPT !.notes = Append(@, Note("Unfocus", c, FALSE, TRUE))]
    ELSE st

OnComponentSelectionChange(st, c, sel, impl) ==
    [st EXCEPT !.notes = Append(@, Note("SelectionChange", c, sel, impl))]

(***************************************************************************)
(* Domain and gizmo.                                                       *)
(***************************************************************************)
ResetDeltaTransform == ZeroDelta

SetDomain(st, d) ==
    [st EXCEPT !.CurrentDomain = d,
               !.Gizmo = IF @ = NoGizmo THEN @
                         ELSE [@ EXCEPT !.progress = (d # TD_None), !.domain = d]]

ClearDomain(st) ==
    SetDomain([st EXCEPT !.AccumulatedDeltaTransform = ResetDeltaTransform], TD_None)

GetGizmoClass(st) ==
    IF st.CurrentTransformation \in {"TT_Translation", "TT_Rotation", "TT_Scale"}
    THEN st.CurrentTransformation ELSE NoClass

SetGizmo(st) ==
    IF Len(st.SelectedComponents) > 0
    THEN LET bCreateGizmo == IF st.Gizmo # NoGizmo
                             THEN st.CurrentTransformation # st.Gizmo.type
                             ELSE TRUE
             old == IF st.Gizmo # NoGizmo /\ bCreateGizmo
                    THEN [st.Gizmo EXCEPT !.destroyed = TRUE]
                    ELSE st.Gizmo
         IN  IF bCreateGizmo /\ GetGizmoClass(st) # NoClass
             THEN [st EXCEPT !.Gizmo = NewGizmo(GetGizmoClass(st))]
             ELSE [st EXCEPT !.Gizmo = old]
    ELSE [st EXCEPT !.Gizmo = NoGizmo]

\* the attachment of the gizmo to the first or last selection is not part of the state
UpdateGizmoPlacement(st) == SetGizmo(st)

SetSpaceType(st, type) == SetGizmo([st EXCEPT !.CurrentSpaceType = type])

SetTransformationType(st, type) ==
    IF st.CurrentTransformation = type THEN st
    ELSE UpdateGizmoPlacement([st EXCEPT !.CurrentTransformation = type,
                                         !.AccumulatedDeltaTransform = ResetDeltaTransform])

SetRotateOnLocalAxis(st, b) == [st EXCEPT !.bRotateOnLocalAxis = b]

(***************************************************************************)
(* The selection set.                                                      *)
(***************************************************************************)
DeselectComponentAtIndex_Internal(st, index) ==
    IF index >= 1 /\ index <= Len(st.SelectedComponents)
    THEN LET c == st.SelectedComponents[index]
             impl == GetUFocusable(st, c)
             s1 == Deselect(st, c)
             s2 == [s1 EXCEPT !.SelectedComponents = RemoveAt(@, index)]
         IN  OnComponentSelectionChange(s2, c, FALSE, impl)
    ELSE st

\* AddComponent_Internal without the test of bToggleSelectedInMultiSelection
AddComponent_AlwaysToggles(st, c) ==
    LET index == Find(st.SelectedComponents, c)
    IN  IF index = 0
        THEN LET s1 == [st EXCEPT !.SelectedComponents = Append(@, c)]
                 impl == GetUFocusable(s1, c)
             IN  OnComponentSelectionChange(Select(s1, c), c, TRUE, impl)
        ELSE DeselectComponentAtIndex_Internal(st, index)

AddComponent_Internal(st, c) ==
    LET index == Find(st.SelectedComponents, c)
    IN  IF index = 0
        THEN LET s1 == [st EXCEPT !.SelectedComponents = Append(@, c)]
                 impl == GetUFocusable(s1, c)
             IN  OnComponentSelectionChange(Select(s1, c), c, TRUE, impl)
        ELSE IF st.bToggleSelectedInMultiSelection
        THEN DeselectComponentAtIndex_Internal(st, index)
        ELSE st

DeselectComponent_Internal(st, c) ==
    LET index == Find(st.SelectedComponents, c)
    IN  IF index # 0 THEN DeselectComponentAtIndex_Internal(st, index) ELSE st

DeselectComponent(st, c) ==
    IF c = Null THEN st
    ELSE UpdateGizmoPlacement(DeselectComponent_Internal(st, c))

DeselectActor(st, a) ==
    IF a # Null THEN DeselectComponent(st, GetRootComponent(a)) ELSE st

RECURSIVE DeselectEach(_, _)
DeselectEach(st, list) ==
    IF list = <<>> THEN st
    ELSE DeselectEach(DeselectComponent(st, Head(list)), Tail(list))

\* the bDestroyDeselected loop of DeselectAll
RECURSIVE DestroyDeselected(_, _)
DestroyDeselected(st, list) ==
    IF list = <<>> THEN st
    ELSE LET c == Head(list)
             actor == GetOwner(st, c)
             owned == {x \in st.alive : GetOwner(st, x) = actor}
         IN  IF c = Null \/ c \notin st.alive \/ actor = Null
             THEN DestroyDeselected(st, Tail(list))
             ELSE IF st.bComponentBased /\ Cardinality(owned) > 1
             THEN DestroyDeselected([st EXCEPT !.alive = @ \ {c}, !.dead = @ \cup {c}],
                                    Tail(list))
             ELSE DestroyDeselected([st EXCEPT !.alive = @ \ owned, !.dead = @ \cup owned],
                                    Tail(list))

\* DeselectAll emptying the array without deselecting its entries one by one
DeselectAll_OnlyEmpties(st, bDestroyDeselected) ==
    The({ IF bDestroyDeselected THEN DestroyDeselected(s2, st.SelectedComponents) ELSE s2 :
          s2 \in { UpdateGizmoPlacement([st EXCEPT !.SelectedComponents = <<>>]) } })

\* returns the new state; the returned array is the selection before the call
DeselectAll(st, bDestroyDeselected) ==
    The({ IF bDestroyDeselected THEN DestroyDeselected(s2, st.SelectedComponents) ELSE s2 :
          s2 \in { UpdateGizmoPlacement([s1 EXCEPT !.SelectedComponents = <<>>]) :
          s1 \in { DeselectEach(st, st.SelectedComponents) } } })

\* SelectComponent that never clears the selection first
SelectComponent_NoClear(st, c, bAppendToList) ==
    IF c = Null THEN st
    ELSE IF ShouldSelect(GetOwner(st, c), c)
    THEN UpdateGizmoPlacement(AddComponent_Internal(st, c))
    ELSE st

SelectComponent(st, c, bAppendToList) ==
    IF c = Null THEN st
    ELSE IF ShouldSelect(GetOwner(st, c), c)
    THEN LET s1 == IF ~bAppendToList THEN DeselectAll(st, FALSE) ELSE st
         IN  UpdateGizmoPlacement(AddComponent_Internal(s1, c))
    ELSE st

SelectActor(st, a, bAppendToList) ==
    IF a = Null THEN st
    ELSE IF ShouldSelect(a, GetRootComponent(a))
    THEN LET s1 == IF ~bAppendToList THEN DeselectAll(st, FALSE) ELSE st
         IN  UpdateGizmoPlacement(AddComponent_Internal(s1, GetRootComponent(a)))
    ELSE st

\* the loop of SelectMultipleComponents; acc carries bAppendToList and bValidList
RECURSIVE SelectEachComponent(_, _, _, _)
SelectEachComponent(st, list, bAppendToList, bValidList) ==
    IF list = <<>> THEN [st |-> st, bValidList |-> bValidList]
    ELSE LET c == Head(list)
         IN  IF c = Null \/ ~ShouldSelect(GetOwner(st, c), c)
             THEN SelectEachComponent(st, Tail(list), bAppendToList, bValidList)
             ELSE LET s1 == IF ~bAppendToList THEN DeselectAll(st, FALSE) ELSE st
                  IN  SelectEachComponent(AddComponent_Internal(s1, c), Tail(list), TRUE, TRUE)

SelectMultipleComponents(st, list, bAppendToList) ==
    The({ IF r.bValidList THEN UpdateGizmoPlacement(r.st) ELSE r.st :
          r \in { SelectEachComponent(st, list, bAppendToList, FALSE) } })

RECURSIVE SelectEachActor(_, _, _, _)
SelectEachActor(st, list, bAppendToList, bValidList) ==
    IF list = <<>> THEN [st |-> st, bValidList |-> bValidList]
    ELSE LET a == Head(list)
         IN  IF a = Null \/ ~ShouldSelect(a, GetRootComponent(a))
             THEN SelectEachActor(st, Tail(list), bAppendToList, bValidList)
             ELSE LET s1 == IF ~bAppendToList THEN DeselectAll(st, FALSE) ELSE st
                  IN  SelectEachActor(AddComponent_Internal(s1, GetRootComponent(a)),
                                      Tail(list), TRUE, TRUE)

SelectMultipleActors(st, list, bAppendToList) ==
    The({ IF r.bValidList THEN UpdateGizmoPlacement(r.st) ELSE r.st :
          r \in { SelectEachActor(st, list, bAppendToList, FALSE) } })

\* the owners of the components of a list, as SetComponentBased collects them
OwnersOf(st, list) == [i \in 1..Len(list) |-> GetOwner(st, list[i])]

SetComponentBased(st, bIsComponentBased) ==
    The({ IF bIsComponentBased
          THEN SelectMultipleComponents(s1, st.SelectedComponents, FALSE)
          ELSE SelectMultipleActors(s1, OwnersOf(s1, st.SelectedComponents), FALSE) :
          s1 \in { [DeselectAll(st, FALSE) EXCEPT !.bComponentBased = bIsComponentBased] } })

(***************************************************************************)
(* Cloning.  free is the ascending sequence of unused object numbers.     *)
(***************************************************************************)
Spawn(st, k, of, asActor) ==
    [st EXCEPT !.clones[k] = [of |-> of, asActor |-> asActor], !.alive = @ \cup {k},
               !.Movable = IF of \in @ THEN @ \cup {k} ELSE @]

RECURSIVE CloneActorsLoop(_, _, _, _, _)
CloneActorsLoop(st, actors, actorsProcessed, free, outClones) ==
    IF actors = <<>> THEN [st |-> st, outClones |-> outClones]
    ELSE LET templateActor == Head(actors)
         IN  IF templateActor = Null \/ templateActor \in actorsProcessed
             THEN CloneActorsLoop(st, Tail(actors), actorsProcessed, free, outClones)
             ELSE CloneActorsLoop(Spawn(st, Head(free), GetRootComponent(templateActor), TRUE),
                                  Tail(actors), actorsProcessed \cup {templateActor},
                                  Tail(free), Append(outClones, GetRootComponent(Head(free))))

CloneActors(st, actors, free) == CloneActorsLoop(st, actors, {}, free, <<>>)

\* the duplication phase of CloneComponents; the reparenting phase changes attachments only
RECURSIVE CloneComponentsLoop(_, _, _, _)
CloneComponentsLoop(st, components, free, outClones) ==
    IF components = <<>> THEN [st |-> st, outClones |-> outClones]
    ELSE LET templateComponent == Head(components)
         IN  IF templateComponent = Null \/ GetOwner(st, templateComponent) = Null
             THEN CloneComponentsLoop(st, Tail(components), free, outClones)
             ELSE CloneComponentsLoop(Spawn(st, Head(free), templateComponent, FALSE),
                                      Tail(components), Tail(free), Append(outClones, Head(free)))

CloneComponents(st, components, free) == CloneComponentsLoop(st, components, free, <<>>)

NonNull(list) == SelectSeq(list, LAMBDA c : c # Null)

\* the number of objects CloneFromList creates for a list
ClonesNeeded(st, list) ==
    IF st.bComponentBased
    THEN Len(SelectSeq(list, LAMBDA c : c # Null /\ GetOwner(st, c) # Null))
    ELSE Cardinality({GetOwner(st, c) : c \in Range(NonNull(list))} \ {Null})

CloneFromList(st, list, free) ==
    The({ [st |-> IF r.st.CurrentDomain # TD_None /\ r.st.Gizmo # NoGizmo
                  THEN [r.st EXCEPT !.Gizmo.progress = TRUE,
                                    !.Gizmo.domain = r.st.CurrentDomain]
                  ELSE r.st,
           outClones |-> r.outClones] :
          r \in { IF st.bComponentBased
                  THEN CloneComponents(st, NonNull(list), free)
                  ELSE CloneActors(st, OwnersOf(st, NonNull(list)), free) } })

CloneSelected(st, p, bSelectNewClones, bAppendToList, free) ==
    The({ IF bSelectNewClones
          THEN SelectMultipleComponents(r.st, r.outClones, bAppendToList)
          ELSE r.st :
          r \in { CloneFromList(s0, s0.SelectedComponents, free) :
          s0 \in { IF GetOwnerRole(p) # Authority
                   THEN [st EXCEPT !.notes = Append(@, Note("Warning", Null, FALSE, FALSE))]
                   ELSE st } } })

(***************************************************************************)
(* Traces.  A ray is the gizmo part it crosses (NoGizmoHit for none,       *)
(* TD_None for a part that maps to no domain) and the object it crosses    *)
(* (Null for none).                                                        *)
(***************************************************************************)
Ray(g, o) == [g |-> g, o |-> o]

HandleTracedObjects(st, g, o, bAppendToList) ==
    The({ IF s1.Gizmo # NoGizmo /\ g # NoGizmoHit /\ s1.CurrentDomain # TD_None
          THEN [st |-> [s1 EXCEPT !.Gizmo.progress = TRUE, !.Gizmo.domain = s1.CurrentDomain],
                ret |-> TRUE]
          ELSE IF o # Null
          THEN [st |-> IF s1.bComponentBased
                       THEN SelectComponent(s1, o, bAppendToList)
                       ELSE SelectActor(s1, GetOwner(s1, o), bAppendToList),
                ret |-> TRUE]
          ELSE [st |-> s1, ret |-> FALSE] :
          s1 \in { IF s0.Gizmo # NoGizmo /\ g # NoGizmoHit THEN SetDomain(s0, g) ELSE s0 :
          s0 \in { ClearDomain(st) } } })

\* TraceByObjectTypes, TraceByChannel and TraceByProfile differ in the engine query only
TraceBy(st, ray, bIgnoreGizmo, bAppendToList) ==
    LET g == IF ~bIgnoreGizmo /\ st.Gizmo # NoGizmo /\ ~st.Gizmo.destroyed
             THEN ray.g ELSE NoGizmoHit
        o == IF ray.o \in st.alive THEN ray.o ELSE Null
    IN  IF g = NoGizmoHit /\ o = Null
        THEN [st |-> st, ret |-> FALSE]
        ELSE HandleTracedObjects(st, g, o, bAppendToList)

(***************************************************************************)
(* Remote calls.  A NetMulticast called on the authority runs there at     *)
(* once and is sent to the proxies; a Server RPC called on a proxy is sent *)
(* to the authority, and called on the authority it runs there at once.    *)
(***************************************************************************)
Send(st, m) == [st EXCEPT !.out = Append(@, m)]

MulticastSetDomain_Implementation(st, d) == SetDomain(st, d)

MulticastDeselectAll_Implementation(st, bDestroySelected) == DeselectAll(st, bDestroySelected)

MulticastSetComponentBased_Implementation(st, b) == SetComponentBased(st, b)

\* MulticastSetSelectedComponents_Implementation comparing the selection with the resolved entries only
MulticastSetSelectedComponents_CountsResolved(st, Components) ==
    The({ IF s2.bResyncSelection /\ ~s2.ResyncSelectionTimerHandle
          THEN [s2 EXCEPT !.ResyncSelectionTimerHandle = TRUE]
          ELSE s2 :
          s2 \in { [s1 EXCEPT !.bResyncSelection =
                                  (Len(NonNull(Components)) # Len(s1.SelectedComponents))] :
          s1 \in { SelectMultipleComponents(DeselectAll(st, FALSE), Components, TRUE) } } })

\* MulticastSetSelectedComponents_Implementation that never asks for a resync
MulticastSetSelectedComponents_NeverResyncs(st, Components) ==
    [SelectMultipleComponents(DeselectAll(st, FALSE), Components, TRUE)
        EXCEPT !.bResyncSelection = FALSE]

\* MulticastSetSelectedComponents_Implementation without the DeselectAll it starts with
MulticastSetSelectedComponents_NoDeselectAll(st, Components) ==
    The({ IF s2.bResyncSelection /\ ~s2.ResyncSelectionTimerHandle
          THEN [s2 EXCEPT !.ResyncSelectionTimerHandle = TRUE]
          ELSE s2 :
          s2 \in { [s1 EXCEPT !.bResyncSelection =
                                  (Len(Components) # Len(s1.SelectedComponents))] :
          s1 \in { SelectMultipleComponents(st, Components, TRUE) } } })

MulticastSetSelectedComponents_Implementation(st, Components) ==
    The({ IF s2.bResyncSelection /\ ~s2.ResyncSelectionTimerHandle
          THEN [s2 EXCEPT !.ResyncSelectionTimerHandle = TRUE]
          ELSE s2 :
          s2 \in { [s1 EXCEPT !.bResyncSelection =
                                  (Len(Components) # Len(s1.SelectedComponents))] :
          s1 \in { SelectMultipleComponents(DeselectAll(st, FALSE), Components, TRUE) } } })

MulticastSetDomain(st, d) ==
    Send(MulticastSetDomain_Implementation(st, d),
         Msg("MulticastSetDomain", d, Null, <<>>, FALSE, FALSE))

MulticastSetSelectedComponents(st, list) ==
    Send(MulticastSetSelectedComponents_Implementation(st, list),
         Msg("MulticastSetSelectedComponents", TD_None, Null, list, FALSE, FALSE))

MulticastDeselectAll(st, b) ==
    Send(MulticastDeselectAll_Implementation(st, b),
         Msg("MulticastDeselectAll", TD_None, Null, <<>>, b, FALSE))

MulticastSetComponentBased(st, b) ==
    Send(MulticastSetComponentBased_Implementation(st, b),
         Msg("MulticastSetComponentBased", TD_None, Null, <<>>, b, FALSE))

IsLocalController(p) == p = LocalController

\* ServerTraceBy_Implementation broadcasting the domain and the selection it had before the trace
ServerTraceBy_BroadcastsBeforeTrace(st, ray, bAppendToList) ==
    The({ IF ~r.ret /\ ~bAppendToList THEN DeselectAll(r.st, FALSE) ELSE r.st :
          r \in { TraceBy(s2, ray, ~IsLocalController(Authority), bAppendToList) :
          s2 \in { MulticastSetSelectedComponents(s1, s1.SelectedComponents) :
          s1 \in { MulticastSetDomain(st, st.CurrentDomain) } } } })

\* GetIgnoredActorsForServerTrace: the gizmo is ignored unless the authority is the local controller
ServerTraceBy_Implementation(st, ray, bAppendToList) ==
    The({ MulticastSetSelectedComponents(s2, s2.SelectedComponents) :
          s2 \in { MulticastSetDomain(s1, s1.CurrentDomain) :
          s1 \in { IF ~r.ret /\ ~bAppendToList THEN DeselectAll(r.st, FALSE) ELSE r.st :
          r \in { TraceBy(st, ray, ~IsLocalController(Authority), bAppendToList) } } } })

ServerSetDomain_Implementation(st, d) == MulticastSetDomain(st, d)

ServerDeselectAll_Implementation(st, b) == MulticastDeselectAll(st, b)

ServerSetComponentBased_Implementation(st, b) == MulticastSetComponentBased(st, b)

ServerSyncSelectedComponents_Implementation(st) ==
    The({ MulticastSetSelectedComponents(s, s.SelectedComponents) : s \in {st} })

\* ServerCloneSelected_Implementation without the early return of component based mode
ServerCloneSelected_NoModeCheck(st, bSelectNewClones, bAppendToList, free) ==
    The({ IF bSelectNewClones
          THEN The({ [s1 EXCEPT !.UnreplicatedComponentClones = r.outClones,
                                !.timerElapsed = IF s1.CheckUnrepTimerHandle THEN @ ELSE 0,
                                !.CheckUnrepTimerHandle = TRUE] :
                     s1 \in { SelectMultipleComponents(r.st, r.outClones, bAppendToList) } })
          ELSE r.st :
          r \in { CloneFromList(st, st.SelectedComponents, free) } })

ServerCloneSelected_Implementation(st, bSelectNewClones, bAppendToList, free) ==
    IF st.bComponentBased THEN st
    ELSE The({ IF bSelectNewClones
               THEN The({ [s1 EXCEPT !.UnreplicatedComponentClones = r.outClones,
                                     !.timerElapsed = IF s1.CheckUnrepTimerHandle THEN @ ELSE 0,
                                     !.CheckUnrepTimerHandle = TRUE] :
                          s1 \in { SelectMultipleComponents(r.st, r.outClones, bAppendToList) } })
               ELSE r.st :
               r \in { CloneFromList(st, st.SelectedComponents, free) } })

\* the comment in the source: IsSupportedForNetworking "returns true all the time"
IsSupportedForNetworking(c) == TRUE

CloneIsReplicated(st, c) ==
    /\ c # Null
    /\ c \in HasBegunPlay
    /\ IsSupportedForNetworking(c)
    /\ st.timerElapsed > MinimumCloneReplicationTime

CheckUnreplicatedActors(st) ==
    The({ IF Len(s1.UnreplicatedComponentClones) = 0
          THEN MulticastSetSelectedComponents([s1 EXCEPT !.CheckUnrepTimerHandle = FALSE],
                                              s1.SelectedComponents)
          ELSE s1 :
          s1 \in { LET pending == st.UnreplicatedComponentClones
                       RemoveCount == Cardinality({i \in 1..Len(pending) :
                                                      CloneIsReplicated(st, pending[i])})
                   IN  [st EXCEPT !.UnreplicatedComponentClones =
                                      RemoveAtSwap(pending, 1, RemoveCount),
                                  !.timerElapsed = 0] } })

\* ResyncSelection that stops its timer after the one request it sends
ResyncSelection_SingleRetry(st, p) ==
    IF st.bResyncSelection
    THEN LET s1 == [st EXCEPT !.ResyncSelectionTimerHandle = FALSE]
         IN  IF p = Authority
             THEN ServerSyncSelectedComponents_Implementation(s1)
             ELSE Send(s1, Msg("ServerSyncSelectedComponents", TD_None, Null, <<>>, FALSE, FALSE))
    ELSE [st EXCEPT !.ResyncSelectionTimerHandle = FALSE]

\* ResyncSelection that never clears its timer
ResyncSelection_KeepsTimer(st, p) ==
    IF st.bResyncSelection
    THEN IF p = Authority
         THEN ServerSyncSelectedComponents_Implementation(st)
         ELSE Send(st, Msg("ServerSyncSelectedComponents", TD_None, Null, <<>>, FALSE, FALSE))
    ELSE st

ResyncSelection(st, p) ==
    IF st.bResyncSelection
    THEN IF p = Authority
         THEN ServerSyncSelectedComponents_Implementation(st)
         ELSE Send(st, Msg("ServerSyncSelectedComponents", TD_None, Null, <<>>, FALSE, FALSE))
    ELSE [st EXCEPT !.ResyncSelectionTimerHandle = FALSE]

HasAuthority(p) == p = Authority

ReplicateServerTraceResults(st, p, bTraceSuccessful, bAppendToList) ==
    IF ~HasAuthority(p)
    THEN The({ MulticastSetSelectedComponents(s2, s2.SelectedComponents) :
               s2 \in { MulticastSetDomain(s1, s1.CurrentDomain) :
               s1 \in { IF ~bTraceSuccessful /\ ~bAppendToList
                        THEN DeselectAll(st, FALSE) ELSE st } } })
    ELSE st

ServerDeselectAll(st, p, b) ==
    IF p = Authority THEN ServerDeselectAll_Implementation(st, b)
    ELSE Send(st, Msg("ServerDeselectAll", TD_None, Null, <<>>, b, FALSE))

ServerSetDomain(st, p, d) ==
    IF p = Authority THEN ServerSetDomain_Implementation(st, d)
    ELSE Send(st, Msg("ServerSetDomain", d, Null, <<>>, FALSE, FALSE))

ServerTraceBy(st, p, kind, ray, bAppendToList) ==
    IF p = Authority THEN ServerTraceBy_Implementation(st, ray, bAppendToList)
    ELSE Send(st, Msg(kind, ray.g, ray.o, <<>>, bAppendToList, FALSE))

ReplicatedMouseTraceByObjectTypes(st, p, ray, bAppendToList) ==
    The({ IF GetOwnerRole(p) = Authority
          THEN ReplicateServerTraceResults(r.st, p, r.ret, bAppendToList)
          ELSE IF ~r.ret /\ ~bAppendToList
          THEN ServerDeselectAll(r.st, p, FALSE)
          ELSE IF r.st.CurrentDomain = TD_None
          THEN ServerTraceBy(r.st, p, "ServerTraceByObjectTypes", ray, bAppendToList)
          ELSE ServerSetDomain(r.st, p, r.st.CurrentDomain) :
          r \in { TraceBy(st, ray, FALSE, bAppendToList) } })

\* ReplicatedMouseTraceByChannel and ReplicatedMouseTraceByProfile: no else before the second branch
ReplicatedMouseTraceByChannel(st, p, kind, ray, bAppendToList) ==
    The({ IF GetOwnerRole(p) = Authority
          THEN ReplicateServerTraceResults(r.st, p, r.ret, bAppendToList)
          ELSE The({ IF s2.CurrentDomain = TD_None
                     THEN ServerTraceBy(s2, p, kind, ray, bAppendToList)
                     ELSE ServerSetDomain(s2, p, s2.CurrentDomain) :
                     s2 \in { IF ~r.ret /\ ~bAppendToList
                              THEN ServerDeselectAll(r.st, p, FALSE) ELSE r.st } }) :
          r \in { TraceBy(st, ray, FALSE, bAppendToList) } })

(***************************************************************************)
(* Transform session.  The gizmo's GetDeltaTransform result is an input of *)
(* the tick; location, rotation and scale are one amount.                  *)
(***************************************************************************)
SetSnappingEnabled(st, type, bSnappingEnabled) ==
    [st EXCEPT !.SnappingEnabled[type] = bSnappingEnabled]

SetSnappingValue(st, type, SnappingValue) == [st EXCEPT !.SnappingValues[type] = SnappingValue]

\* ABaseGizmo::GetSnappedTransform: the raw delta is added to the accumulated one, the
\* multiple of the increment is emitted and the remainder stays accumulated
GetSnappedTransform(acc, raw, SnappingValue) ==
    [acc |-> (acc + raw) % SnappingValue, delta |-> (acc + raw) - ((acc + raw) % SnappingValue)]

\* ABaseGizmo::GetSnappedTransformPerComponent: only the scale gizmo re-snaps an object
GetSnappedTransformPerComponent(st, old, new, SnappingValue) ==
    IF st.Gizmo.type = "TT_Scale" THEN new - (new % SnappingValue) ELSE new

bSnapping(st) ==
    /\ st.SnappingEnabled[st.CurrentTransformation]
    /\ st.SnappingValues[st.CurrentTransformation] # NoSnappingValue

SetTransform(st, c, Transform) ==
    IF c = Null THEN st
    ELSE IF GetUFocusable(st, c)
    THEN [st EXCEPT !.notes = Append(@, Note("NewTransformation", c, FALSE, TRUE)),
                    !.WorldTransform[c] = IF st.bTransformUFocusableObjects THEN Transform ELSE @]
    ELSE [st EXCEPT !.WorldTransform[c] = Transform]

RECURSIVE ApplyDeltaTransformLoop(_, _, _)
ApplyDeltaTransformLoop(st, list, DeltaTransform) ==
    IF list = <<>> THEN st
    ELSE LET sc == Head(list)
             newTransform == st.WorldTransform[sc] + DeltaTransform
         IN  ApplyDeltaTransformLoop(
                 IF sc = Null THEN st
                 ELSE IF st.bForceMobility \/ sc \in st.Movable
                 THEN SetTransform([st EXCEPT !.Movable = @ \cup {sc}], sc,
                                   IF bSnapping(st)
                                   THEN GetSnappedTransformPerComponent(
                                            st, st.WorldTransform[sc], newTransform,
                                            st.SnappingValues[st.CurrentTransformation])
                                   ELSE newTransform)
                 ELSE [st EXCEPT !.notes = Append(@, Note("Warning", sc, FALSE, FALSE))],
                 Tail(list), DeltaTransform)

\* ApplyDeltaTransform treating every selected object as if bForceMobility were set
ApplyDeltaTransform_IgnoresMobility(st, DeltaTransform) ==
    [ApplyDeltaTransformLoop([st EXCEPT !.bForceMobility = TRUE], st.SelectedComponents,
                             DeltaTransform)
        EXCEPT !.bForceMobility = st.bForceMobility]

ApplyDeltaTransform(st, DeltaTransform) ==
    ApplyDeltaTransformLoop(st, st.SelectedComponents, DeltaTransform)

UpdateTransform(st, calcDeltaTransform) ==
    IF st.Gizmo = NoGizmo \/ st.CurrentDomain = TD_None
    THEN [st |-> st, delta |-> ZeroDelta]
    ELSE The({ [st |-> ApplyDeltaTransform([st EXCEPT !.AccumulatedDeltaTransform = r.acc],
                                           r.delta),
                delta |-> r.delta] :
               r \in { IF bSnapping(st)
                       THEN GetSnappedTransform(st.AccumulatedDeltaTransform, calcDeltaTransform,
                                                st.SnappingValues[st.CurrentTransformation])
                       ELSE [acc |-> st.AccumulatedDeltaTransform,
                             delta |-> calcDeltaTransform] } })

\* TickComponent keeping the delta of the last tick instead of composing it
TickComponent_KeepsLastDelta(st, p, calcDeltaTransform) ==
    IF st.Gizmo = NoGizmo \/ ~IsLocalController(p) THEN st
    ELSE The({ [r.st EXCEPT !.NetworkDeltaTransform = r.delta] :
               r \in { UpdateTransform(st, calcDeltaTransform) } })

TickComponent(st, p, calcDeltaTransform) ==
    IF st.Gizmo = NoGizmo \/ ~IsLocalController(p) THEN st
    ELSE The({ [r.st EXCEPT !.NetworkDeltaTransform = r.delta + @] :
               r \in { UpdateTransform(st, calcDeltaTransform) } })

MulticastClearDomain_Implementation(st) == ClearDomain(st)

MulticastClearDomain(st) ==
    Send(MulticastClearDomain_Implementation(st),
         Msg("MulticastClearDomain", TD_None, Null, <<>>, FALSE, FALSE))

ServerClearDomain_Implementation(st) == MulticastClearDomain(st)

ServerClearDomain(st, p) ==
    IF p = Authority THEN ServerClearDomain_Implementation(st)
    ELSE Send(st, Msg("ServerClearDomain", TD_None, Null, <<>>, FALSE, FALSE))

\* MulticastApplyTransform_Implementation without the test of the local controller
MulticastApplyTransform_AppliesEverywhere(st, p, DeltaTransform) ==
    ApplyDeltaTransform(st, DeltaTransform)

MulticastApplyTransform_Implementation(st, p, DeltaTransform) ==
    IF ~IsLocalController(p) THEN ApplyDeltaTransform(st, DeltaTransform) ELSE st

\* the transform travels in the field o of the message
MulticastApplyTransform(st, DeltaTransform) ==
    Send(MulticastApplyTransform_Implementation(st, Authority, DeltaTransform),
         Msg("MulticastApplyTransform", TD_None, DeltaTransform, <<>>, FALSE, FALSE))

ServerApplyTransform_Implementation(st, DeltaTransform) ==
    MulticastApplyTransform(st, DeltaTransform)

ServerApplyTransform(st, p, DeltaTransform) ==
    IF p = Authority THEN ServerApplyTransform_Implementation(st, DeltaTransform)
    ELSE Send(st, Msg("ServerApplyTransform", TD_None, DeltaTransform, <<>>, FALSE, FALSE))

ReplicateFinishTransform(st, p) ==
    The({ [s2 EXCEPT !.NetworkDeltaTransform = ResetDeltaTransform] :
          s2 \in { ServerApplyTransform(s1, p, s1.NetworkDeltaTransform) :
          s1 \in { ServerClearDomain(st, p) } } })

(***************************************************************************)
(* The reparenting pass of CloneComponents, step by step, on the scene     *)
(* components 1..MaxParts of one actor whose root component is 1.  The     *)
(* clone of part c is the node MaxParts + c.  Reading through a null       *)
(* pointer is undefined: the call is aborted, or the read yields any node. *)
(***************************************************************************)
Parts == 1..MaxParts
SceneRoot == 1
CloneNode(c) == MaxParts + c
Nodes == 1..(2 * MaxParts)

\* the nodes above c in the attachment chain f, following at most n links
RECURSIVE AncestorsUpTo(_, _, _)
AncestorsUpTo(f, c, n) ==
    IF n = 0 \/ f[c] = Null THEN {} ELSE {f[c]} \cup AncestorsUpTo(f, f[c], n - 1)

GetAttachParents(f, c) == AncestorsUpTo(f, c, 2 * MaxParts)

Scene(AttachParent, Components) ==
    [ AttachParent |-> AttachParent,       \* USceneComponent::GetAttachParent of every node
      Components |-> Components,           \* the argument of CloneComponents
      OcCc |-> [c \in Parts |-> Null],     \* original component - clone component
      CcOp |-> <<>>,                       \* clone component - original parent, in insertion order
      pc |-> "Idle",
      cp |-> 0,                            \* the entry of CcOp the pass is at
      parent |-> Null,
      root |-> Null,                       \* actorOwner->GetRootComponent()
      walked |-> FALSE ]                   \* the while loop of the entry has run

NoScene == [Scene([n \in Nodes |-> Null], <<>>) EXCEPT !.pc = "None"]

\* l.641-666: the clone components phase
ClonePhase(sc) ==
    [sc EXCEPT !.OcCc = [c \in Parts |-> IF \E k \in 1..Len(sc.Components) : sc.Components[k] = c
                                         THEN CloneNode(c) ELSE Null],
               !.CcOp = [k \in 1..Len(sc.Components) |->
                            [Key |-> CloneNode(sc.Components[k]),
                             Value |-> IF sc.Components[k] = SceneRoot THEN SceneRoot
                                       ELSE sc.AttachParent[sc.Components[k]]]],
               !.cp = 1,
               !.pc = IF sc.Components = <<>> THEN "Done" ELSE "Reparent"]

\* l.681-685: the original parent was cloned
ClonedParent_NoSelfCheck(sc, Key, Value) == sc.OcCc[Value]

ClonedParent(sc, Key, Value) == IF sc.OcCc[Value] # Key THEN sc.OcCc[Value] ELSE Value

\* l.674-689: the entry sc.cp of CcOp; garbage is what a read through nullptr yielded
ReparentEntry(sc, garbage) ==
    LET Key == sc.CcOp[sc.cp].Key
        Value == sc.CcOp[sc.cp].Value
    IN  IF Value = Null
        THEN [sc EXCEPT !.parent = Value, !.root = garbage, !.walked = FALSE, !.pc = "Walk"]
        ELSE IF sc.OcCc[Value] # Null
        THEN [sc EXCEPT !.parent = ClonedParent(sc, Key, Value), !.root = SceneRoot,
                        !.walked = FALSE, !.pc = "Attach"]
        ELSE [sc EXCEPT !.parent = Value, !.root = SceneRoot, !.walked = FALSE, !.pc = "Walk"]

\* l.690-709: one iteration of the while loop; up is parent->GetAttachParent()
WalkIteration(sc, up) ==
    IF sc.parent = sc.root
    THEN [sc EXCEPT !.parent = sc.CcOp[sc.cp].Value, !.walked = TRUE, !.pc = "Attach"]
    ELSE IF up # Null /\ up \in Parts /\ sc.OcCc[up] # Null
    THEN [sc EXCEPT !.parent = sc.OcCc[up], !.walked = TRUE, !.pc = "Attach"]
    ELSE [sc EXCEPT !.parent = up, !.walked = TRUE]

\* l.712: AttachToComponent, and on to the next entry
AttachToComponent(sc) ==
    [sc EXCEPT !.AttachParent[sc.CcOp[sc.cp].Key] = sc.parent,
               !.cp = @ + 1,
               !.pc = IF sc.cp = Len(sc.CcOp) THEN "Done" ELSE "Reparent"]

(***************************************************************************)
(* Steps.  Commit stores the state a handler produced for participant p,   *)
(* routes the remote calls it made (ts and tc are the queues after the     *)
(* handled call was taken out) and records the step.                       *)
(***************************************************************************)
RECURSIVE ApplyNotes(_, _)
ApplyNotes(S, notes) ==
    IF notes = <<>> THEN S
    ELSE LET n == Head(notes)
         IN  ApplyNotes(IF n.n # "SelectionChange" THEN S
                        ELSE IF n.sel THEN S \cup {n.c} ELSE S \ {n.c},
                        Tail(notes))

Op(op, p, c, b, list, st) ==
    [op |-> op, p |-> p, c |-> c, b |-> b, list |-> list, notes |-> st.notes, out |-> st.out]

Commit(p, result, op, c, b, list, ts, tc) ==
    \E st \in {result} :
        /\ part' = [part EXCEPT ![p] = [st EXCEPT !.notes = <<>>, !.out = <<>>]]
        /\ added' = [added EXCEPT ![p] = ApplyNotes(@, st.notes)]
        /\ lastOp' = Op(op, p, c, b, list, st)
        /\ IF p = Authority
           THEN /\ \A q \in Proxies : Len(tc[q]) + Len(st.out) <= MaxQueue
                /\ toClient' = [q \in Proxies |-> tc[q] \o st.out]
                /\ toServer' = ts
           ELSE /\ Len(ts) + Len(st.out) <= MaxQueue
                /\ toServer' = ts \o st.out
                /\ toClient' = tc
        /\ UNCHANGED <<HasBegunPlay, age, LocalController, scene>>

Local(p, st, op, c, b, list) ==
    /\ Commit(p, st, op, c, b, list, toServer, toClient)
    /\ UNCHANGED <<calls, lastCall>>

NoCall == [op |-> "None", p |-> Authority, b |-> FALSE, hit |-> FALSE, g |-> NoGizmoHit]

\* a call of the replicated interface: op on p with bAppendToList b, hit the result of its trace
Remote(p, st, op, c, b, hit, g) ==
    /\ calls < MaxCalls
    /\ Commit(p, st, op, c, b, <<>>, toServer, toClient)
    /\ calls' = calls + 1
    /\ lastCall' = [op |-> op, p |-> p, b |-> b, hit |-> hit, g |-> g]

UsedIds == {k \in CloneIds : \E p \in Participants : part[p].clones[k] # NoClone}
FreeIds == LET n == Cardinality(UsedIds)
               first == Cardinality(BaseObjects) + n
           IN  [i \in 1..(MaxClones - n) |-> first + i]

\* the object pointers a caller on p can hold: live objects and destroyed ones not yet collected
Pointers(p) == part[p].alive \cup part[p].dead
ActorPointers(p) == {GetOwner(part[p], c) : c \in Pointers(p)} \ {Null}

\* the state after construction on every participant; controller is the local controller
InitParticipants(toggle, late, controller) ==
    /\ part = [p \in Participants |->
                  [InitComponent(toggle) EXCEPT !.alive = IF p = Authority THEN @ ELSE @ \ late]]
    /\ toServer = <<>>
    /\ toClient = [q \in Proxies |-> <<>>]
    /\ HasBegunPlay = {}
    /\ age = [k \in CloneIds |-> 0]
    /\ LocalController = controller
    /\ added = [p \in Participants |-> {}]
    /\ lastOp = [op |-> "Init", p |-> Authority, c |-> Null, b |-> FALSE, list |-> <<>>,
                 notes |-> <<>>, out |-> <<>>]
    /\ calls = 0
    /\ lastCall = NoCall

InitWith(toggle, late, controller) ==
    /\ InitParticipants(toggle, late, controller)
    /\ scene = NoScene

InitState == \E controller \in Participants : InitWith(TRUE, {}, controller)

\* bToggleSelectedInMultiSelection is an editable property: either setting
InitConfigured ==
    \E toggle \in BOOLEAN, controller \in Participants : InitWith(toggle, {}, controller)

(***************************************************************************)
(* The local interface, called on the participant of the local controller. *)
(***************************************************************************)
CallSelectComponent(p) ==
    \E c \in Pointers(p) \cup {Null}, b \in BOOLEAN :
        Local(p, SelectComponent(part[p], c, b), "SelectComponent", c, b, <<>>)

CallSelectActor(p) ==
    \E a \in ActorPointers(p) \cup {Null}, b \in BOOLEAN :
        Local(p, SelectActor(part[p], a, b), "SelectActor", a, b, <<>>)

CallSelectMultipleComponents(p) ==
    \E list \in SeqsUpTo(Pointers(p) \cup {Null}, MaxListLen), b \in BOOLEAN :
        Local(p, SelectMultipleComponents(part[p], list, b), "SelectMultipleComponents",
              Null, b, <<>>)

CallSelectMultipleActors(p) ==
    \E list \in SeqsUpTo(ActorPointers(p) \cup {Null}, MaxListLen), b \in BOOLEAN :
        Local(p, SelectMultipleActors(part[p], list, b), "SelectMultipleActors", Null, b, <<>>)

CallDeselectComponent(p) ==
    \E c \in Pointers(p) \cup {Null} :
        Local(p, DeselectComponent(part[p], c), "DeselectComponent", c, FALSE, <<>>)

CallDeselectActor(p) ==
    \E a \in ActorPointers(p) \cup {Null} :
        Local(p, DeselectActor(part[p], a), "DeselectActor", a, FALSE, <<>>)

CallDeselectAll(p, flags) ==
    \E b \in flags :
        Local(p, DeselectAll(part[p], b), "DeselectAll", Null, b, <<>>)

CallSetTransformationType(p) ==
    \E t \in TransformationTypes :
        Local(p, SetTransformationType(part[p], t), "SetTransformationType", Null, FALSE, <<>>)

CallSetSpaceType(p) ==
    \E t \in SpaceTypes :
        Local(p, SetSpaceType(part[p], t), "SetSpaceType", Null, FALSE, <<>>)

CallSetComponentBased(p) ==
    \E b \in BOOLEAN :
        Local(p, SetComponentBased(part[p], b), "SetComponentBased", Null, b, <<>>)

CallCloneSelected(p) ==
    \E bSelectNewClones, bAppendToList \in BOOLEAN :
        /\ ClonesNeeded(part[p], part[p].SelectedComponents) <= Len(FreeIds)
        /\ Local(p, CloneSelected(part[p], p, bSelectNewClones, bAppendToList, FreeIds),
                 "CloneSelected", Null, bSelectNewClones, <<>>)

NextLocal ==
    \E p \in {LocalController} :
        \/ CallSelectComponent(p)
        \/ CallSelectActor(p)
        \/ CallDeselectComponent(p)
        \/ CallDeselectAll(p, {FALSE})
        \/ CallSetTransformationType(p)
        \/ CallSetSpaceType(p)
        \/ CallSetComponentBased(p)

SpecLocal == InitConfigured /\ [][NextLocal]_vars

\* local cloning of what was selected
NextLocalClone ==
    \E p \in {LocalController} :
        \/ CallSelectActor(p)
        \/ CallSetComponentBased(p)
        \/ CallCloneSelected(p)

SpecLocalClone == InitConfigured /\ [][NextLocalClone]_vars

\* the selection interface alone
NextSelect ==
    \E p \in {LocalController} :
        \/ CallSelectComponent(p)
        \/ CallSelectActor(p)
        \/ CallSelectMultipleComponents(p)
        \/ CallSelectMultipleActors(p)
        \/ CallDeselectComponent(p)
        \/ CallDeselectActor(p)
        \/ CallDeselectAll(p, BOOLEAN)

SpecSelect == InitConfigured /\ [][NextSelect]_vars

\* the selection interface in either selection mode, the mode being an editable property
InitFocus ==
    \E toggle \in BOOLEAN, mode \in BOOLEAN, controller \in Participants :
        /\ part = [p \in Participants |->
                      [InitComponent(toggle) EXCEPT !.bComponentBased = mode]]
        /\ toServer = <<>>
        /\ toClient = [q \in Proxies |-> <<>>]
        /\ HasBegunPlay = {}
        /\ age = [k \in CloneIds |-> 0]
        /\ LocalController = controller
        /\ added = [p \in Participants |-> {}]
        /\ lastOp = [op |-> "Init", p |-> Authority, c |-> Null, b |-> FALSE, list |-> <<>>,
                     notes |-> <<>>, out |-> <<>>]
        /\ calls = 0
        /\ lastCall = NoCall
        /\ scene = NoScene

SpecFocus == InitFocus /\ [][NextSelect]_vars

(***************************************************************************)
(* Objects destroyed by the game while they are selected.  The callers     *)
(* pass pointers to live objects only; the pointer kept in the selection   *)
(* outlives its object.                                                    *)
(***************************************************************************)
\* AActor::Destroy called by the game on the owner of a selected object
ExternalDestroy(p) ==
    \E i \in 1..Len(part[p].SelectedComponents) :
        LET actor == GetOwner(part[p], part[p].SelectedComponents[i])
            owned == {x \in part[p].alive : GetOwner(part[p], x) = actor}
        IN  /\ part[p].SelectedComponents[i] \in part[p].alive
            /\ part' = [part EXCEPT ![p].alive = @ \ owned, ![p].dead = @ \cup owned]
            /\ lastOp' = [op |-> "Destroy", p |-> p, c |-> actor, b |-> FALSE, list |-> <<>>,
                          notes |-> <<>>, out |-> <<>>]
            /\ UNCHANGED <<toServer, toClient, HasBegunPlay, age, LocalController, added, calls,
                           lastCall, scene>>

CallSelectLiveComponent(p) ==
    \E c \in part[p].alive, b \in BOOLEAN :
        Local(p, SelectComponent(part[p], c, b), "SelectComponent", c, b, <<>>)

CallDeselectLiveComponent(p) ==
    \E c \in part[p].alive :
        Local(p, DeselectComponent(part[p], c), "DeselectComponent", c, FALSE, <<>>)

CallApplyDeltaTransform(p) ==
    \E DeltaTransform \in {1} :
        /\ calls < MaxCalls
        /\ Commit(p, ApplyDeltaTransform(part[p], DeltaTransform), "ApplyDeltaTransform", Null,
                  FALSE, <<>>, toServer, toClient)
        /\ calls' = calls + 1
        /\ UNCHANGED lastCall

NextDestroy ==
    \E p \in {LocalController} :
        \/ CallSelectLiveComponent(p)
        \/ CallDeselectLiveComponent(p)
        \/ CallDeselectAll(p, {FALSE})
        \/ CallSetTransformationType(p)
        \/ CallApplyDeltaTransform(p)
        \/ ExternalDestroy(p)

SpecDestroy == InitConfigured /\ [][NextDestroy]_vars

(***************************************************************************)
(* The replicated interface, called on the participant of the local        *)
(* controller.                                                             *)
(***************************************************************************)
Targets(p) == {Null} \cup part[p].alive \cup part[Authority].alive
\* every ray, and the rays that cross no gizmo
Rays(p) == {Ray(g, o) : g \in {NoGizmoHit} \cup Domains, o \in Targets(p)}
ObjectRays(p) == {Ray(NoGizmoHit, o) : o \in Targets(p)}

CallReplicatedMouseTraceByObjectTypes(p, rays) ==
    \E ray \in rays, b \in BOOLEAN :
        Remote(p, ReplicatedMouseTraceByObjectTypes(part[p], p, ray, b),
               "ReplicatedMouseTraceByObjectTypes", ray.o, b, TraceBy(part[p], ray, FALSE, b).ret,
               ray.g)

CallReplicatedMouseTraceByChannel(p, rays) ==
    \E ray \in rays, b \in BOOLEAN :
        Remote(p, ReplicatedMouseTraceByChannel(part[p], p, "ServerTraceByChannel", ray, b),
               "ReplicatedMouseTraceByChannel", ray.o, b, TraceBy(part[p], ray, FALSE, b).ret,
               ray.g)

CallReplicatedMouseTraceByProfile(p, rays) ==
    \E ray \in rays, b \in BOOLEAN :
        Remote(p, ReplicatedMouseTraceByChannel(part[p], p, "ServerTraceByProfile", ray, b),
               "ReplicatedMouseTraceByProfile", ray.o, b, TraceBy(part[p], ray, FALSE, b).ret,
               ray.g)

\* object numbers left for what a clone request on the authority would spawn
CanSpawn == part[Authority].bComponentBased
            \/ ClonesNeeded(part[Authority], part[Authority].SelectedComponents) <= Len(FreeIds)

\* the ServerCloneSelected RPC as called by the user
CallServerCloneSelected(p) ==
    \E bSelectNewClones, bAppendToList \in BOOLEAN :
        IF p = Authority
        THEN /\ CanSpawn
             /\ Remote(p, ServerCloneSelected_Implementation(part[p], bSelectNewClones,
                                                             bAppendToList, FreeIds),
                       "ServerCloneSelected_Implementation", Null, bSelectNewClones, FALSE,
                       NoGizmoHit)
        ELSE Remote(p, Send(part[p], Msg("ServerCloneSelected", TD_None, Null, <<>>,
                                         bSelectNewClones, bAppendToList)),
                    "ServerCloneSelected", Null, bSelectNewClones, FALSE, NoGizmoHit)

\* the ServerSetComponentBased RPC as called by the user, when it changes the mode;
\* counted tells whether the call takes part in the MaxCalls budget
CallServerSetComponentBased(p, counted) ==
    \E b \in BOOLEAN :
        LET st == IF p = Authority
                  THEN ServerSetComponentBased_Implementation(part[p], b)
                  ELSE Send(part[p], Msg("ServerSetComponentBased", TD_None, Null, <<>>, b, FALSE))
            op == IF p = Authority THEN "ServerSetComponentBased_Implementation"
                  ELSE "ServerSetComponentBased"
        IN  /\ b # part[p].bComponentBased
            /\ IF counted THEN Remote(p, st, op, Null, b, FALSE, NoGizmoHit)
               ELSE Local(p, st, op, Null, b, <<>>)

(***************************************************************************)
(* The authority handles the Server RPC at the head of its queue.          *)
(***************************************************************************)
ServerTraceNames == {"ServerTraceByObjectTypes", "ServerTraceByChannel", "ServerTraceByProfile"}

Serve(m, st) ==
    /\ Commit(Authority, st, m.t \o "_Implementation", m.o, m.b1, <<>>, Tail(toServer), toClient)
    /\ UNCHANGED <<calls, lastCall>>

HandleServerTraceBy ==
    /\ toServer # <<>> /\ Head(toServer).t \in ServerTraceNames
    /\ LET m == Head(toServer)
       IN  Serve(m, ServerTraceBy_Implementation(part[Authority], Ray(m.d, m.o), m.b1))

HandleServerSetDomain ==
    /\ toServer # <<>> /\ Head(toServer).t = "ServerSetDomain"
    /\ LET m == Head(toServer)
       IN  Serve(m, ServerSetDomain_Implementation(part[Authority], m.d))

HandleServerDeselectAll ==
    /\ toServer # <<>> /\ Head(toServer).t = "ServerDeselectAll"
    /\ LET m == Head(toServer)
       IN  Serve(m, ServerDeselectAll_Implementation(part[Authority], m.b1))

HandleServerSetComponentBased ==
    /\ toServer # <<>> /\ Head(toServer).t = "ServerSetComponentBased"
    /\ LET m == Head(toServer)
       IN  Serve(m, ServerSetComponentBased_Implementation(part[Authority], m.b1))

HandleServerSyncSelectedComponents ==
    /\ toServer # <<>> /\ Head(toServer).t = "ServerSyncSelectedComponents"
    /\ LET m == Head(toServer)
       IN  Serve(m, ServerSyncSelectedComponents_Implementation(part[Authority]))

HandleServerCloneSelected ==
    /\ toServer # <<>> /\ Head(toServer).t = "ServerCloneSelected"
    /\ CanSpawn
    /\ LET m == Head(toServer)
       IN  Serve(m, ServerCloneSelected_Implementation(part[Authority], m.b1, m.b2, FreeIds))

(***************************************************************************)
(* A proxy applies the NetMulticast at the head of its queue.  Object      *)
(* references it cannot resolve arrive as nullptr.                         *)
(***************************************************************************)
Resolve(st, list) == [i \in 1..Len(list) |-> IF list[i] \in st.alive THEN list[i] ELSE Null]

Apply(q, m, st, list) ==
    /\ Commit(q, st, m.t \o "_Implementation", Null, m.b1, list, toServer,
              [toClient EXCEPT ![q] = Tail(@)])
    /\ UNCHANGED <<calls, lastCall>>

ApplyMulticastSetDomain(q) ==
    /\ toClient[q] # <<>> /\ Head(toClient[q]).t = "MulticastSetDomain"
    /\ LET m == Head(toClient[q])
       IN  Apply(q, m, MulticastSetDomain_Implementation(part[q], m.d), <<>>)

ApplyMulticastSetSelectedComponents(q) ==
    /\ toClient[q] # <<>> /\ Head(toClient[q]).t = "MulticastSetSelectedComponents"
    /\ LET m == Head(toClient[q])
           Components == Resolve(part[q], m.list)
       IN  Apply(q, m, MulticastSetSelectedComponents_Implementation(part[q], Components),
                 Components)

(***************************************************************************)
(* Selection broadcasts of any content: every list of references, repeated *)
(* and unresolvable ones included, received in either selection mode and   *)
(* under either toggle policy.                                             *)
(***************************************************************************)
InitBroadcast ==
    \E toggle \in BOOLEAN, mode \in BOOLEAN, late \in SUBSET {3}, controller \in Participants :
        /\ part = [p \in Participants |->
                      [InitComponent(toggle) EXCEPT !.bComponentBased = mode,
                                                    !.alive = IF p = Authority THEN @ ELSE @ \ late]]
        /\ toServer = <<>>
        /\ toClient = [q \in Proxies |-> <<>>]
        /\ HasBegunPlay = {}
        /\ age = [k \in CloneIds |-> 0]
        /\ LocalController = controller
        /\ added = [p \in Participants |-> {}]
        /\ lastOp = [op |-> "Init", p |-> Authority, c |-> Null, b |-> FALSE, list |-> <<>>,
                     notes |-> <<>>, out |-> <<>>]
        /\ calls = 0
        /\ lastCall = NoCall
        /\ scene = NoScene

\* a proxy receives MulticastSetSelectedComponents(list); lastOp keeps the list as sent
ReceiveMulticastSetSelectedComponents(q) ==
    \E list \in SeqsUpTo(BaseObjects \cup {Null}, MaxListLen + 1) :
        Local(q, MulticastSetSelectedComponents_Implementation(part[q], Resolve(part[q], list)),
              "MulticastSetSelectedComponents_Implementation", Null, FALSE, list)

NextBroadcast ==
    \/ \E q \in Proxies : ReceiveMulticastSetSelectedComponents(q)
    \/ \E q \in Proxies : CallSelectLiveComponent(q)

SpecBroadcast == InitBroadcast /\ [][NextBroadcast]_vars

ApplyMulticastDeselectAll(q) ==
    /\ toClient[q] # <<>> /\ Head(toClient[q]).t = "MulticastDeselectAll"
    /\ LET m == Head(toClient[q])
       IN  Apply(q, m, MulticastDeselectAll_Implementation(part[q], m.b1), <<>>)

ApplyMulticastSetComponentBased(q) ==
    /\ toClient[q] # <<>> /\ Head(toClient[q]).t = "MulticastSetComponentBased"
    /\ LET m == Head(toClient[q])
       IN  Apply(q, m, MulticastSetComponentBased_Implementation(part[q], m.b1), <<>>)

(***************************************************************************)
(* Timers.                                                                 *)
(***************************************************************************)
FireCheckUnreplicatedActors ==
    /\ part[Authority].CheckUnrepTimerHandle
    /\ Local(Authority, CheckUnreplicatedActors(part[Authority]), "CheckUnreplicatedActors",
             Null, FALSE, part[Authority].UnreplicatedComponentClones)

FireResyncSelection(p) ==
    /\ part[p].ResyncSelectionTimerHandle
    /\ Local(p, ResyncSelection(part[p], p), "ResyncSelection", Null, part[p].bResyncSelection,
             <<>>)

(***************************************************************************)
(* The engine: BeginPlay of a spawned clone, replication of a clone to a   *)
(* proxy, and the clock.                                                   *)
(***************************************************************************)
EnvOp(op, c) ==
    [op |-> op, p |-> Authority, c |-> c, b |-> FALSE, list |-> <<>>, notes |-> <<>>, out |-> <<>>]

BeginPlay ==
    \E k \in CloneIds :
        /\ k \in part[Authority].alive /\ k \notin HasBegunPlay
        /\ HasBegunPlay' = HasBegunPlay \cup {k}
        /\ lastOp' = EnvOp("BeginPlay", k)
        /\ UNCHANGED <<part, toServer, toClient, age, LocalController, added, calls, lastCall,
                       scene>>

ReplicateActor(q) ==
    \E k \in Objects :
        /\ k \in part[Authority].alive /\ k \notin part[q].alive
        /\ part' = [part EXCEPT ![q].alive = @ \cup {k},
                                ![q].clones = IF k \in CloneIds
                                              THEN [@ EXCEPT ![k] = part[Authority].clones[k]]
                                              ELSE @]
        /\ lastOp' = EnvOp("ReplicateActor", k)
        /\ UNCHANGED <<toServer, toClient, HasBegunPlay, age, LocalController, added, calls,
                       lastCall, scene>>

Older(t) == IF t < MaxAge THEN t + 1 ELSE t

AdvanceTime ==
    /\ age' = [k \in CloneIds |-> IF k \in part[Authority].alive THEN Older(age[k]) ELSE age[k]]
    /\ part' = [part EXCEPT ![Authority].timerElapsed =
                                IF part[Authority].CheckUnrepTimerHandle THEN Older(@) ELSE @]
    /\ (age' # age \/ part' # part)
    /\ lastOp' = EnvOp("AdvanceTime", Null)
    /\ UNCHANGED <<toServer, toClient, HasBegunPlay, LocalController, added, calls, lastCall,
                   scene>>

\* actor 3 was spawned at run time; it may not have reached the proxies yet
InitLate ==
    \E late \in SUBSET {3}, controller \in Participants : InitWith(TRUE, late, controller)

(***************************************************************************)
(* Replicated traces: the three entry points, every ray.                   *)
(***************************************************************************)
NextTrace ==
    \/ CallReplicatedMouseTraceByObjectTypes(LocalController, Rays(LocalController))
    \/ CallReplicatedMouseTraceByChannel(LocalController, Rays(LocalController))
    \/ CallReplicatedMouseTraceByProfile(LocalController, Rays(LocalController))
    \/ HandleServerTraceBy
    \/ HandleServerSetDomain
    \/ HandleServerDeselectAll
    \/ \E q \in Proxies : ApplyMulticastSetDomain(q)
    \/ \E q \in Proxies : ApplyMulticastSetSelectedComponents(q)
    \/ \E q \in Proxies : ApplyMulticastDeselectAll(q)

SpecTrace == InitState /\ [][NextTrace]_vars

(***************************************************************************)
(* Selection resync: traces that cross no gizmo, the selection mode, late  *)
(* replication and the resync poll.                                        *)
(***************************************************************************)
NextResync ==
    \/ CallReplicatedMouseTraceByObjectTypes(LocalController, ObjectRays(LocalController))
    \/ CallServerSetComponentBased(LocalController, FALSE)
    \/ HandleServerTraceBy
    \/ HandleServerDeselectAll
    \/ HandleServerSetComponentBased
    \/ HandleServerSyncSelectedComponents
    \/ \E q \in Proxies : ApplyMulticastSetDomain(q)
    \/ \E q \in Proxies : ApplyMulticastSetSelectedComponents(q)
    \/ \E q \in Proxies : ApplyMulticastDeselectAll(q)
    \/ \E q \in Proxies : ApplyMulticastSetComponentBased(q)
    \/ \E p \in Participants : FireResyncSelection(p)
    \/ \E q \in Proxies : ReplicateActor(q)

SpecResync == InitLate /\ [][NextResync]_vars

(***************************************************************************)
(* The resync poll under fairness: every call of the user is counted, and  *)
(* the engine keeps firing a looping timer.  A firing that sends a request *)
(* waits while the queue to the authority is full, so the fairness is      *)
(* strong.                                                                 *)
(***************************************************************************)
NextPoll ==
    \/ CallReplicatedMouseTraceByObjectTypes(LocalController, ObjectRays(LocalController))
    \/ CallServerSetComponentBased(LocalController, TRUE)
    \/ HandleServerTraceBy
    \/ HandleServerDeselectAll
    \/ HandleServerSetComponentBased
    \/ HandleServerSyncSelectedComponents
    \/ \E q \in Proxies : ApplyMulticastSetDomain(q)
    \/ \E q \in Proxies : ApplyMulticastSetSelectedComponents(q)
    \/ \E q \in Proxies : ApplyMulticastDeselectAll(q)
    \/ \E q \in Proxies : ApplyMulticastSetComponentBased(q)
    \/ \E p \in Participants : FireResyncSelection(p)
    \/ \E q \in Proxies : ReplicateActor(q)

FairPoll == \A p \in Participants : SF_vars(FireResyncSelection(p))

SpecPoll == InitLate /\ [][NextPoll]_vars /\ FairPoll

(***************************************************************************)
(* Networked cloning: clone requests, traces that cross no gizmo, the      *)
(* readiness poll, the resync poll and the engine.                         *)
(***************************************************************************)
NextClone ==
    \/ CallReplicatedMouseTraceByObjectTypes(LocalController, ObjectRays(LocalController))
    \/ CallServerCloneSelected(LocalController)
    \/ CallServerSetComponentBased(LocalController, TRUE)
    \/ HandleServerTraceBy
    \/ HandleServerDeselectAll
    \/ HandleServerSetComponentBased
    \/ HandleServerSyncSelectedComponents
    \/ HandleServerCloneSelected
    \/ \E q \in Proxies : ApplyMulticastSetDomain(q)
    \/ \E q \in Proxies : ApplyMulticastSetSelectedComponents(q)
    \/ \E q \in Proxies : ApplyMulticastDeselectAll(q)
    \/ \E q \in Proxies : ApplyMulticastSetComponentBased(q)
    \/ FireCheckUnreplicatedActors
    \/ \E p \in Participants : FireResyncSelection(p)
    \/ BeginPlay
    \/ \E q \in Proxies : ReplicateActor(q)
    \/ AdvanceTime

SpecClone == InitState /\ [][NextClone]_vars

(***************************************************************************)
(* Transform sessions: traces that select objects or grab the gizmo, the   *)
(* tick, the snapping settings and the end of the transformation.          *)
(***************************************************************************)
\* bForceMobility is an editable property: either setting
InitTransform ==
    \E force \in BOOLEAN, controller \in Participants :
        /\ part = [p \in Participants |-> [InitComponent(TRUE) EXCEPT !.bForceMobility = force]]
        /\ toServer = <<>>
        /\ toClient = [q \in Proxies |-> <<>>]
        /\ HasBegunPlay = {}
        /\ age = [k \in CloneIds |-> 0]
        /\ LocalController = controller
        /\ added = [p \in Participants |-> {}]
        /\ lastOp = [op |-> "Init", p |-> Authority, c |-> Null, b |-> FALSE, list |-> <<>>,
                     notes |-> <<>>, out |-> <<>>]
        /\ calls = 0
        /\ lastCall = NoCall
        /\ scene = NoScene

\* rays that cross the X axis of the gizmo or none of its parts, and actor 1, actor 3 or nothing
TransformRays == {Ray(g, o) : g \in {NoGizmoHit, "TD_X_Axis"}, o \in {Null, 1, 3}}
RawDeltas == 0..MaxRaw
SnappingIncrements == {2}

\* a tick of the component of p; the ticks and the traces together are at most MaxSteps
CallTickComponent(p) ==
    \E calcDeltaTransform \in RawDeltas :
        /\ calls < MaxSteps
        /\ Commit(p, TickComponent(part[p], p, calcDeltaTransform), "TickComponent", Null, FALSE,
                  <<>>, toServer, toClient)
        /\ calls' = calls + 1
        /\ lastCall' = [op |-> "TickComponent", p |-> p, b |-> FALSE, hit |-> FALSE,
                        g |-> NoGizmoHit]

CallSetSnappingEnabled(p) ==
    \E b \in BOOLEAN :
        /\ b # part[p].SnappingEnabled[part[p].CurrentTransformation]
        /\ Local(p, SetSnappingEnabled(part[p], part[p].CurrentTransformation, b),
                 "SetSnappingEnabled", Null, b, <<>>)

CallSetSnappingValue(p) ==
    \E v \in SnappingIncrements :
        /\ v # part[p].SnappingValues[part[p].CurrentTransformation]
        /\ Local(p, SetSnappingValue(part[p], part[p].CurrentTransformation, v),
                 "SetSnappingValue", Null, FALSE, <<>>)

CallReplicateFinishTransform(p) ==
    Local(p, ReplicateFinishTransform(part[p], p), "ReplicateFinishTransform", Null, FALSE, <<>>)

HandleServerClearDomain ==
    /\ toServer # <<>> /\ Head(toServer).t = "ServerClearDomain"
    /\ LET m == Head(toServer)
       IN  Serve(m, ServerClearDomain_Implementation(part[Authority]))

HandleServerApplyTransform ==
    /\ toServer # <<>> /\ Head(toServer).t = "ServerApplyTransform"
    /\ LET m == Head(toServer)
       IN  Serve(m, ServerApplyTransform_Implementation(part[Authority], m.o))

ApplyMulticastClearDomain(q) ==
    /\ toClient[q] # <<>> /\ Head(toClient[q]).t = "MulticastClearDomain"
    /\ LET m == Head(toClient[q])
       IN  Apply(q, m, MulticastClearDomain_Implementation(part[q]), <<>>)

ApplyMulticastApplyTransform(q) ==
    /\ toClient[q] # <<>> /\ Head(toClient[q]).t = "MulticastApplyTransform"
    /\ LET m == Head(toClient[q])
       IN  Apply(q, m, MulticastApplyTransform_Implementation(part[q], q, m.o), <<>>)

NextTransform ==
    \/ CallReplicatedMouseTraceByObjectTypes(LocalController, TransformRays)
    \/ \E p \in Participants : CallTickComponent(p)
    \/ CallSetSnappingEnabled(LocalController)
    \/ CallSetSnappingValue(LocalController)
    \/ CallReplicateFinishTransform(LocalController)
    \/ HandleServerTraceBy
    \/ HandleServerSetDomain
    \/ HandleServerDeselectAll
    \/ HandleServerClearDomain
    \/ HandleServerApplyTransform
    \/ \E q \in Proxies : ApplyMulticastSetDomain(q)
    \/ \E q \in Proxies : ApplyMulticastSetSelectedComponents(q)
    \/ \E q \in Proxies : ApplyMulticastDeselectAll(q)
    \/ \E q \in Proxies : ApplyMulticastClearDomain(q)
    \/ \E q \in Proxies : ApplyMulticastApplyTransform(q)

SpecTransform == InitTransform /\ [][NextTransform]_vars

(***************************************************************************)
(* CloneComponents on the parts of one actor: every acyclic hierarchy      *)
(* under the root component, every list of distinct parts.                 *)
(***************************************************************************)
Acyclic(f, nodes) == \A c \in nodes : c \notin GetAttachParents(f, c)

\* the hierarchies of the parts: the root is attached to nothing, no part is above itself
Hierarchies ==
    {[n \in Nodes |-> IF n \in Parts THEN g[n] ELSE Null] :
        g \in {f \in [Parts -> Parts \cup {Null}] : f[SceneRoot] = Null /\ Acyclic(f, Parts)}}

\* every part other than the root is attached, directly or not, to the root
SingleRooted(f) == \A c \in Parts \ {SceneRoot} : SceneRoot \in GetAttachParents(f, c)

InitScene(hierarchies) ==
    /\ InitParticipants(TRUE, {}, Authority)
    /\ \E f \in hierarchies, Components \in SeqsUpTo(Parts, MaxParts) :
           /\ NoDuplicates(Components)
           /\ scene = Scene(f, Components)

SceneStep(sc) ==
    /\ scene' = sc
    /\ UNCHANGED <<part, toServer, toClient, HasBegunPlay, age, LocalController, added, lastOp,
                   calls, lastCall>>

Aborted == [scene EXCEPT !.pc = "Aborted"]

CallCloneComponents == scene.pc = "Idle" /\ SceneStep(ClonePhase(scene))

StepReparentEntry ==
    /\ scene.pc = "Reparent"
    /\ IF scene.CcOp[scene.cp].Value = Null
       THEN \/ SceneStep(Aborted)
            \/ \E garbage \in Nodes \cup {Null} : SceneStep(ReparentEntry(scene, garbage))
       ELSE SceneStep(ReparentEntry(scene, Null))

StepWalkIteration ==
    /\ scene.pc = "Walk"
    /\ IF scene.parent = Null /\ scene.parent # scene.root
       THEN \/ SceneStep(Aborted)
            \/ \E garbage \in Nodes \cup {Null} : SceneStep(WalkIteration(scene, garbage))
       ELSE SceneStep(WalkIteration(scene, IF scene.parent = Null THEN Null
                                           ELSE scene.AttachParent[scene.parent]))

StepAttachToComponent == scene.pc = "Attach" /\ SceneStep(AttachToComponent(scene))

NextReparent ==
    \/ CallCloneComponents
    \/ StepReparentEntry
    \/ StepWalkIteration
    \/ StepAttachToComponent

SpecReparent == InitScene({f \in Hierarchies : SingleRooted(f)}) /\ [][NextReparent]_vars

\* any acyclic hierarchy, parts left unattached included; the pass is not suspended for ever
SpecReparentAny == InitScene(Hierarchies) /\ [][NextReparent]_vars /\ WF_vars(NextReparent)

(***************************************************************************)
(* Properties.                                                             *)
(***************************************************************************)
SelectionBroadcasts(out) ==
    {i \in 1..Len(out) : out[i].t = "MulticastSetSelectedComponents"}

\* C1: every clone named in a MulticastSetSelectedComponents the authority issues, from the
\* readiness poll, a trace reply or a resync reply, has begun play and has existed for more
\* than MinimumCloneReplicationTime.
C1_BroadcastNamesOnlyReadyClones ==
    lastOp.p = Authority =>
        \A i \in SelectionBroadcasts(lastOp.out) :
            \A k \in Range(lastOp.out[i].list) \cap CloneIds :
                k \in HasBegunPlay /\ age[k] > MinimumCloneReplicationTime

\* C2: a firing of CheckUnreplicatedActors broadcasts only if every pending clone satisfies
\* both readiness conditions, never removes a pending clone that is not ready, and after a
\* broadcast the pending set is empty and the poll timer is cleared.
C2_PollWaitsForEveryPendingClone ==
    [][lastOp'.op = "CheckUnreplicatedActors" =>
          LET st == part[Authority]
              pending == Range(st.UnreplicatedComponentClones)
              after == part'[Authority]
          IN  /\ lastOp'.out # <<>> => \A c \in pending : CloneIsReplicated(st, c)
              /\ \A c \in pending :
                    ~CloneIsReplicated(st, c) => c \in Range(after.UnreplicatedComponentClones)
              /\ lastOp'.out # <<>> =>
                    /\ after.UnreplicatedComponentClones = <<>>
                    /\ ~after.CheckUnrepTimerHandle]_vars

\* C3: right after a participant applies MulticastSetSelectedComponents_Implementation to a
\* list, its bResyncSelection is true exactly when the list and its selection differ in
\* length; on the authority the list is the one the handler broadcasts last.
C3_ResyncFlagIsCountMismatch ==
    /\ lastOp.op = "MulticastSetSelectedComponents_Implementation" =>
           part[lastOp.p].bResyncSelection
               = (Len(lastOp.list) # Len(part[lastOp.p].SelectedComponents))
    /\ (lastOp.p = Authority /\ lastOp.out # <<>>
           /\ lastOp.out[Len(lastOp.out)].t = "MulticastSetSelectedComponents") =>
           part[Authority].bResyncSelection
               = (Len(lastOp.out[Len(lastOp.out)].list) # Len(part[Authority].SelectedComponents))

\* a proxy that was out of sync applies a list of 3 entries that all resolve: the flag is
\* cleared while the timer set by the earlier mismatch is still active
C3_Witness ==
    /\ lastOp.op = "MulticastSetSelectedComponents_Implementation"
    /\ lastOp.p \in Proxies
    /\ Len(lastOp.list) = 3
    /\ Null \notin Range(lastOp.list)
    /\ part[lastOp.p].ResyncSelectionTimerHandle
    /\ ~part[lastOp.p].bResyncSelection
    /\ Len(part[lastOp.p].SelectedComponents) = 3

ResyncRequests(out) ==
    {i \in 1..Len(out) : out[i].t = "ServerSyncSelectedComponents"}

\* C4: while a proxy's bResyncSelection is true its resync timer is active, every firing
\* of the timer sends exactly one ServerSyncSelectedComponents and leaves the timer
\* active, and under fair firing, unless the queue to the authority stays full, the proxy
\* sends the request again and again for as long as the flag stays true.
C4_OutOfSyncProxyKeepsRequesting ==
    /\ [](\A p \in Proxies : part[p].bResyncSelection => part[p].ResyncSelectionTimerHandle)
    /\ [][\A p \in Proxies :
             (lastOp'.op = "ResyncSelection" /\ lastOp'.p = p /\ part[p].bResyncSelection) =>
                 /\ Cardinality(ResyncRequests(lastOp'.out)) = 1
                 /\ Len(lastOp'.out) = 1
                 /\ toServer' = toServer \o lastOp'.out
                 /\ part'[p].ResyncSelectionTimerHandle
                 /\ part'[p].bResyncSelection]_vars
    /\ \A p \in Proxies :
          []<>(Len(toServer) < MaxQueue) =>
              \/ []<>(~part[p].bResyncSelection)
              \/ []<><<lastOp'.op = "ResyncSelection" /\ lastOp'.p = p
                         /\ ResyncRequests(lastOp'.out) # {}>>_vars

\* an out-of-sync proxy has sent a second request before the first one was served
C4_Witness ==
    /\ lastOp.op = "ResyncSelection"
    /\ lastOp.p \in Proxies
    /\ part[lastOp.p].bResyncSelection
    /\ part[lastOp.p].ResyncSelectionTimerHandle
    /\ Len(toServer) = 2
    /\ ResyncRequests(toServer) = {1, 2}

\* C5: a proxy whose bResyncSelection is false sends no ServerSyncSelectedComponents, the
\* next firing of its resync timer clears the timer, a timer left active with the flag
\* false is cleared eventually, and the timer becomes active again only when a
\* MulticastSetSelectedComponents with mismatching counts is applied.
C5_SyncedProxyStopsPolling ==
    /\ [][\A p \in Proxies :
             (lastOp'.p = p /\ ~part[p].bResyncSelection) =>
                 /\ ResyncRequests(lastOp'.out) = {}
                 /\ lastOp'.op = "ResyncSelection" => ~part'[p].ResyncSelectionTimerHandle]_vars
    /\ [][\A p \in Proxies :
             (~part[p].ResyncSelectionTimerHandle /\ part'[p].ResyncSelectionTimerHandle) =>
                 /\ lastOp'.op = "MulticastSetSelectedComponents_Implementation"
                 /\ lastOp'.p = p
                 /\ part'[p].bResyncSelection
                 /\ Len(lastOp'.list) # Len(part'[p].SelectedComponents)]_vars
    /\ \A p \in Proxies :
          (~part[p].bResyncSelection /\ part[p].ResyncSelectionTimerHandle)
              ~> (~part[p].ResyncSelectionTimerHandle \/ part[p].bResyncSelection)

\* the timer of a proxy that converged to a selection fired once more and was cleared
C5_Witness ==
    /\ lastOp.op = "ResyncSelection"
    /\ lastOp.p \in Proxies
    /\ ~lastOp.b
    /\ lastOp.out = <<>>
    /\ ~part[lastOp.p].ResyncSelectionTimerHandle
    /\ ~part[lastOp.p].bResyncSelection
    /\ part[lastOp.p].SelectedComponents # <<>>
    /\ part[lastOp.p].SelectedComponents = part[Authority].SelectedComponents

\* C6: once the messages of a replicated mouse trace that hit nothing, called without
\* bAppendToList on the authority or on a proxy, are all delivered, the selection of every
\* participant is empty.
C6_MissedTraceDeselectsEverywhere ==
    (/\ lastCall.op \in {"ReplicatedMouseTraceByObjectTypes", "ReplicatedMouseTraceByChannel",
                         "ReplicatedMouseTraceByProfile"}
     /\ ~lastCall.b
     /\ ~lastCall.hit
     /\ toServer = <<>>
     /\ \A q \in Proxies : toClient[q] = <<>>) =>
        \A p \in Participants : part[p].SelectedComponents = <<>>

\* C7: CloneSelected called in actor mode on a participant whose role is below Authority
\* logs a warning, creates no clone and leaves the selection as it was.
C7_CloneBelowAuthorityIsRejected ==
    [][(lastOp'.op = "CloneSelected" /\ GetOwnerRole(lastOp'.p) # Authority
           /\ ~part[lastOp'.p].bComponentBased) =>
          /\ \E i \in 1..Len(lastOp'.notes) : lastOp'.notes[i].n = "Warning"
          /\ part'[lastOp'.p].alive = part[lastOp'.p].alive
          /\ part'[lastOp'.p].clones = part[lastOp'.p].clones
          /\ part'[lastOp'.p].SelectedComponents = part[lastOp'.p].SelectedComponents]_vars

\* C8: ServerCloneSelected handled while bComponentBased is true creates no clone, leaves
\* the selection, the pending clones and the readiness timer of the authority as they were
\* and issues no multicast.
C8_ComponentModeCloneRequestIsRejected ==
    [][(lastOp'.op = "ServerCloneSelected_Implementation" /\ part[Authority].bComponentBased) =>
          /\ part'[Authority].alive = part[Authority].alive
          /\ part'[Authority].clones = part[Authority].clones
          /\ part'[Authority].SelectedComponents = part[Authority].SelectedComponents
          /\ part'[Authority].UnreplicatedComponentClones
                 = part[Authority].UnreplicatedComponentClones
          /\ part'[Authority].CheckUnrepTimerHandle = part[Authority].CheckUnrepTimerHandle
          /\ part'[Authority].timerElapsed = part[Authority].timerElapsed
          /\ lastOp'.out = <<>>
          /\ lastOp'.notes = <<>>
          /\ toClient' = toClient]_vars

\* the authority, in component mode with a selection, has handled a clone request
C8_Witness ==
    /\ lastOp.op = "ServerCloneSelected_Implementation"
    /\ part[Authority].bComponentBased
    /\ part[Authority].SelectedComponents # <<>>
    /\ part[Authority].alive = BaseObjects

\* C9: after any sequence of calls of the selection interface the selection holds no
\* reference twice and is as long as the number of distinct objects, still valid, that were
\* added and not removed since.
C9_SelectionCountsValidMembers ==
    \A p \in Participants :
        /\ NoDuplicates(part[p].SelectedComponents)
        /\ Len(part[p].SelectedComponents)
               = Cardinality({c \in added[p] : c \in part[p].alive})

\* C10: SelectComponent or SelectActor with bAppendToList of an object already selected
\* removes that object alone, with the unfocus and the selection change reported for it
\* and for no other, when bToggleSelectedInMultiSelection is set, and changes nothing when
\* it is not set.
C10_ReselectTogglesUnderPolicy ==
    [][(/\ lastOp'.op \in {"SelectComponent", "SelectActor"}
        /\ lastOp'.b
        /\ lastOp'.c \in Range(part[lastOp'.p].SelectedComponents)) =>
          LET p == lastOp'.p
              c == lastOp'.c
              before == part[p].SelectedComponents
          IN  IF part[p].bToggleSelectedInMultiSelection
              THEN /\ part'[p].SelectedComponents = SelectSeq(before, LAMBDA x : x # c)
                   /\ Len(part'[p].SelectedComponents) = Len(before) - 1
                   /\ \A i \in 1..Len(lastOp'.notes) : lastOp'.notes[i].c = c
                   /\ \E i \in 1..Len(lastOp'.notes) :
                         lastOp'.notes[i] = Note("SelectionChange", c, FALSE,
                                                 GetUFocusable(part[p], c))
                   /\ GetUFocusable(part[p], c) =>
                         \E i \in 1..Len(lastOp'.notes) : lastOp'.notes[i].n = "Unfocus"
              ELSE /\ part'[p].SelectedComponents = before
                   /\ lastOp'.notes = <<>>]_vars

\* a focusable member of a selection of several was selected again and removed
C10_Witness ==
    /\ lastOp.op \in {"SelectComponent", "SelectActor"}
    /\ lastOp.b
    /\ part[lastOp.p].bToggleSelectedInMultiSelection
    /\ lastOp.c \notin Range(part[lastOp.p].SelectedComponents)
    /\ part[lastOp.p].SelectedComponents # <<>>
    /\ \E i \in 1..Len(lastOp.notes) : lastOp.notes[i].n = "Unfocus" /\ lastOp.notes[i].c = lastOp.c

\* the places of the notifications named n about object c in a sequence of notifications
NotesAbout(notes, n, c) == {i \in 1..Len(notes) : notes[i].n = n /\ notes[i].c = c}

\* C11: SelectComponent or SelectActor of an object without bAppendToList leaves the
\* selection equal to that object alone; every member of the selection before, when it is
\* focusable, is unfocused exactly once, and deselected exactly once, before the object is
\* focused, and the focus is the last focus or unfocus the object receives.
C11_SelectWithoutAppendReplaces ==
    [][(lastOp'.op \in {"SelectComponent", "SelectActor"} /\ ~lastOp'.b /\ lastOp'.c # Null) =>
          LET p == lastOp'.p
              c == lastOp'.c
              S == Range(part[p].SelectedComponents)
              notes == lastOp'.notes
              focus == NotesAbout(notes, "Focus", c)
          IN  /\ part'[p].SelectedComponents = <<c>>
              /\ \A x \in S :
                    /\ Cardinality(NotesAbout(notes, "Unfocus", x))
                           = IF GetUFocusable(part[p], x) THEN 1 ELSE 0
                    /\ Cardinality({i \in NotesAbout(notes, "SelectionChange", x) :
                                       ~notes[i].sel}) = 1
                    /\ \A i \in NotesAbout(notes, "Unfocus", x) \cup
                                {j \in NotesAbout(notes, "SelectionChange", x) : ~notes[j].sel} :
                          \A j \in focus : i < j
              /\ Cardinality(focus) = IF GetUFocusable(part[p], c) THEN 1 ELSE 0
              /\ \A i \in NotesAbout(notes, "Unfocus", c) : \A j \in focus : i < j
              /\ notes[Len(notes)] = Note("SelectionChange", c, TRUE, GetUFocusable(part[p], c))]_vars

\* an object selected with another one was selected again without bAppendToList: both
\* were unfocused and the object was focused again
C11_Witness ==
    /\ lastOp.op \in {"SelectComponent", "SelectActor"}
    /\ ~lastOp.b
    /\ part[lastOp.p].SelectedComponents = <<lastOp.c>>
    /\ NotesAbout(lastOp.notes, "Unfocus", lastOp.c) # {}
    /\ NotesAbout(lastOp.notes, "Focus", lastOp.c) # {}
    /\ \E x \in Objects \ {lastOp.c} : NotesAbout(lastOp.notes, "Unfocus", x) # {}

\* the domain and the selection of the authority after the trace of the request at the head
\* of its queue, the DeselectAll of a missed trace without bAppendToList included
AfterServerTrace ==
    The({ The({ IF ~r.ret /\ ~m.b1 THEN DeselectAll(r.st, FALSE) ELSE r.st :
                r \in { TraceBy(part[Authority], Ray(m.d, m.o), ~IsLocalController(Authority),
                                m.b1) } }) :
          m \in { Head(toServer) } })

\* C12: every ServerTraceBy* request the authority handles, whatever the trace hit and
\* whatever bAppendToList, sends exactly one MulticastSetDomain followed by exactly one
\* MulticastSetSelectedComponents; they carry the domain and the selection the authority
\* has after the trace, which are also the ones it holds when the handler returns.
C12_ServerTraceBroadcastsResult ==
    [][lastOp'.op \in {n \o "_Implementation" : n \in ServerTraceNames} /\ toServer # <<>>
       /\ toServer' = Tail(toServer) =>
          /\ Len(lastOp'.out) = 2
          /\ lastOp'.out[1] = Msg("MulticastSetDomain", AfterServerTrace.CurrentDomain,
                                  Null, <<>>, FALSE, FALSE)
          /\ lastOp'.out[2] = Msg("MulticastSetSelectedComponents", TD_None, Null,
                                  AfterServerTrace.SelectedComponents, FALSE, FALSE)
          /\ part'[Authority].CurrentDomain = lastOp'.out[1].d
          /\ part'[Authority].SelectedComponents = lastOp'.out[2].list]_vars

\* a handled trace request that changed the selection of the authority and broadcast it
C12_Witness ==
    /\ lastOp.op \in {n \o "_Implementation" : n \in ServerTraceNames}
    /\ Len(lastOp.out) = 2
    /\ lastOp.out[2].list # <<>>
    /\ lastOp.out[2].list = part[Authority].SelectedComponents
    /\ lastOp.c \in Range(lastOp.out[2].list)

ReplicatedTraceNames == {"ReplicatedMouseTraceByObjectTypes", "ReplicatedMouseTraceByChannel",
                         "ReplicatedMouseTraceByProfile"}

\* C13: a ReplicatedMouseTraceBy* call on a proxy whose trace crosses a part of the proxy's
\* own gizmo that maps to a domain sends ServerSetDomain with that domain and nothing else;
\* a call whose trace crosses no such part sends no ServerSetDomain.
C13_SetDomainOnlyForGizmoHit ==
    [][calls' = calls + 1 /\ lastCall'.op \in ReplicatedTraceNames /\ lastCall'.p \in Proxies =>
          LET p == lastCall'.p
              out == lastOp'.out
              bGizmoHit == /\ part[p].Gizmo # NoGizmo /\ ~part[p].Gizmo.destroyed
                           /\ lastCall'.g \in Domains \ {TD_None}
          IN  IF bGizmoHit
              THEN out = <<Msg("ServerSetDomain", lastCall'.g, Null, <<>>, FALSE, FALSE)>>
              ELSE \A i \in 1..Len(out) : out[i].t # "ServerSetDomain"]_vars

\* the participant holds a gizmo that was not destroyed
HoldsLiveGizmo(p) == part[p].Gizmo # NoGizmo /\ ~part[p].Gizmo.destroyed

\* C14: after every operation of the local interface (SelectComponent, SelectActor,
\* DeselectComponent, DeselectAll, SetTransformationType, SetSpaceType, SetComponentBased) a
\* gizmo that was not destroyed is held exactly when SelectedComponents is not empty,
\* whatever CurrentTransformation is, TT_NoTransform included.
C14_LiveGizmoIffSelection ==
    \A p \in Participants : HoldsLiveGizmo(p) <=> part[p].SelectedComponents # <<>>

\* C15: a gizmo the component references was not destroyed and is of the kind
\* CurrentTransformation; and SetTransformationType to a kind other than the current one,
\* while objects are selected, leaves the component without a reference to the gizmo it
\* held before, which is destroyed.
C15_HeldGizmoIsLiveAndOfCurrentKind ==
    [][\A p \in Participants :
          /\ part'[p].Gizmo # NoGizmo =>
                 /\ ~part'[p].Gizmo.destroyed
                 /\ part'[p].Gizmo.type = part'[p].CurrentTransformation
          /\ (/\ lastOp'.op = "SetTransformationType" /\ lastOp'.p = p
              /\ part'[p].CurrentTransformation # part[p].CurrentTransformation
              /\ part[p].SelectedComponents # <<>> /\ part[p].Gizmo # NoGizmo) =>
                 part'[p].Gizmo # [part[p].Gizmo EXCEPT !.destroyed = TRUE]]_vars

\* C16: every step that takes the domain of a participant from an axis to TD_None (a
\* trace, ClearDomain through MulticastClearDomain, or MulticastSetDomain with TD_None; the
\* flush of ReplicateFinishTransform apart) leaves its AccumulatedDeltaTransform reset and
\* its NetworkDeltaTransform as it was.
C16_ClearedDomainResetsAccumulated ==
    [][\A p \in Participants :
          (/\ lastOp'.p = p /\ lastOp'.op # "ReplicateFinishTransform"
           /\ part[p].CurrentDomain # TD_None /\ part'[p].CurrentDomain = TD_None) =>
              /\ part'[p].AccumulatedDeltaTransform = ZeroDelta
              /\ part'[p].NetworkDeltaTransform = part[p].NetworkDeltaTransform]_vars

\* C17: when a step starts a transform session of a participant (its domain goes from
\* TD_None to an axis) or ends one (back to TD_None), AccumulatedDeltaTransform and
\* NetworkDeltaTransform of that participant are both reset after the step.
C17_SessionStartsAndEndsReset ==
    [][\A p \in Participants :
          (part[p].CurrentDomain = TD_None) # (part'[p].CurrentDomain = TD_None) =>
              /\ part'[p].AccumulatedDeltaTransform = ZeroDelta
              /\ part'[p].NetworkDeltaTransform = ZeroDelta]_vars

\* the delta transforms ApplyDeltaTransform was called with on participant p in this step:
\* by the tick of the local controller while a domain is active, or by
\* MulticastApplyTransform where p is not the local controller
AppliedDeltas(p) ==
    IF /\ lastOp'.op = "TickComponent" /\ lastOp'.p = p /\ IsLocalController(p)
       /\ part[p].Gizmo # NoGizmo /\ part[p].CurrentDomain # TD_None
    THEN {part'[p].NetworkDeltaTransform - part[p].NetworkDeltaTransform}
    ELSE IF /\ lastOp'.op = "MulticastApplyTransform_Implementation" /\ lastOp'.p = p
            /\ ~IsLocalController(p) /\ toClient[p] # <<>>
    THEN {Head(toClient[p]).o}
    ELSE IF /\ lastOp'.op = "ServerApplyTransform_Implementation" /\ p = Authority
            /\ ~IsLocalController(p) /\ toServer # <<>>
    THEN {Head(toServer).o}
    ELSE {}

\* C18: ApplyDeltaTransform without bForceMobility leaves the world transform and the
\* mobility of every selected object that is not Movable as they were and moves every
\* Movable selected object by the delta; with bForceMobility every selected object is
\* moved by the delta and is Movable afterwards.
C18_ApplyDeltaRespectsMobility ==
    [][\A p \in Participants : \A d \in AppliedDeltas(p) :
          \A sc \in Range(part[p].SelectedComponents) \ {Null} :
              IF part[p].bForceMobility \/ sc \in part[p].Movable
              THEN /\ part'[p].WorldTransform[sc] = part[p].WorldTransform[sc] + d
                   /\ sc \in part'[p].Movable
              ELSE /\ part'[p].WorldTransform[sc] = part[p].WorldTransform[sc]
                   /\ sc \notin part'[p].Movable]_vars

\* a tick without bForceMobility that moved the Movable actor 1 and left the Static actor 3,
\* both selected
C18_Witness ==
    \E p \in Participants :
        /\ lastOp.op = "TickComponent" /\ lastOp.p = p /\ ~part[p].bForceMobility
        /\ {1, 3} \subseteq Range(part[p].SelectedComponents)
        /\ part[p].NetworkDeltaTransform > 0
        /\ part[p].WorldTransform[1] = part[p].NetworkDeltaTransform
        /\ part[p].WorldTransform[3] = 0 /\ 3 \notin part[p].Movable

\* C19: for every acyclic single-rooted hierarchy and every list of distinct parts of it,
\* once the reparenting pass of CloneComponents is over the attachment graph of the parts
\* and their clones is acyclic: no node, clone or original, is attached to itself or is
\* above itself in its attachment chain.
C19_ReparentingKeepsAcyclic ==
    scene.pc = "Done" => Acyclic(scene.AttachParent, Nodes)

\* the root and two more parts were cloned, the clone of the root stayed on the original
\* root, and the last clone found its parent by walking up the hierarchy
C19_Witness ==
    /\ scene.pc = "Done"
    /\ Len(scene.CcOp) >= 3
    /\ scene.OcCc[SceneRoot] # Null
    /\ scene.AttachParent[CloneNode(SceneRoot)] = SceneRoot
    /\ scene.walked
    /\ scene.AttachParent[scene.CcOp[Len(scene.CcOp)].Key] \in Nodes \ Parts

\* C20: for every acyclic hierarchy, parts attached to nothing included, and every list
\* of distinct parts, the reparenting pass of CloneComponents comes to its end: every
\* walk up the hierarchy stops and every clone is attached.
C20_ReparentingPassTerminates == <>(scene.pc = "Done")

\* the original part an entry of CcOp was cloned from
TemplateOf(Key) == Key - MaxParts

\* C21: when the reparenting pass of CloneComponents is over, a clone whose original is
\* attached to the root component is attached to the original root, never to a clone of
\* the root, also when the root is among the cloned parts.
C21_ChildOfRootStaysOnOriginalRoot ==
    scene.pc = "Done" =>
        \A k \in 1..Len(scene.CcOp) :
            scene.AttachParent[TemplateOf(scene.CcOp[k].Key)] = SceneRoot =>
                scene.AttachParent[scene.CcOp[k].Key] = SceneRoot

\* the original ancestors of part c that were cloned
ClonedAncestors(sc, c) == {a \in GetAttachParents(sc.AttachParent, c) : sc.OcCc[a] # Null}

\* the cloned ancestor of c below every other cloned ancestor of c
NearestClonedAncestor(sc, c) ==
    CHOOSE a \in ClonedAncestors(sc, c) :
        \A b \in ClonedAncestors(sc, c) \ {a} : b \in GetAttachParents(sc.AttachParent, a)

\* C22: when the reparenting pass of CloneComponents is over, a clone whose original
\* parent was not cloned is attached to the clone of the nearest cloned ancestor of its
\* original, and to the original root when no ancestor up to the root was cloned.
C22_WalkFindsNearestClonedAncestorOrRoot ==
    scene.pc = "Done" =>
        \A k \in 1..Len(scene.CcOp) :
            LET Key == scene.CcOp[k].Key
                c == TemplateOf(Key)
            IN  (c # SceneRoot /\ scene.OcCc[scene.CcOp[k].Value] = Null) =>
                    IF ClonedAncestors(scene, c) # {}
                    THEN scene.AttachParent[Key] = scene.OcCc[NearestClonedAncestor(scene, c)]
                    ELSE scene.AttachParent[Key] = SceneRoot

\* a proxy q takes the multicast at the head of its queue in this step
Applies(q) ==
    /\ toClient[q] # <<>>
    /\ toClient' = [toClient EXCEPT ![q] = Tail(@)]
    /\ lastOp'.p = q
    /\ lastOp'.op = Head(toClient[q]).t \o "_Implementation"

\* what C23 compares of a receiver after a selection broadcast
SelectionView(st) == <<st.SelectedComponents, st.bResyncSelection, st.Gizmo # NoGizmo>>

\* C23: on a receiver, MulticastSetSelectedComponents(list) applied a second time leaves
\* the selection, the resync flag and the presence of a gizmo as the first application
\* left them; MulticastSetDomain(d) applied a second time leaves the domain as the first
\* left it; and for every domain d the selection and the domain after one
\* MulticastSetDomain(d) and one MulticastSetSelectedComponents(list) are the same in
\* either order of application.
C23_BroadcastsIdempotentAndIndependent ==
    [][\A q \in Proxies :
          /\ (Applies(q) /\ Head(toClient[q]).t = "MulticastSetSelectedComponents") =>
                /\ SelectionView(MulticastSetSelectedComponents_Implementation(part'[q], lastOp'.list))
                      = SelectionView(part'[q])
                /\ \A d \in Domains :
                      LET selThenDom == MulticastSetDomain_Implementation(part'[q], d)
                          domThenSel == MulticastSetSelectedComponents_Implementation(
                                            MulticastSetDomain_Implementation(part[q], d),
                                            lastOp'.list)
                      IN  /\ selThenDom.SelectedComponents = domThenSel.SelectedComponents
                          /\ selThenDom.CurrentDomain = domThenSel.CurrentDomain
          /\ (Applies(q) /\ Head(toClient[q]).t = "MulticastSetDomain") =>
                MulticastSetDomain_Implementation(part'[q], Head(toClient[q]).d).CurrentDomain
                    = part'[q].CurrentDomain]_vars

\* a proxy has applied a selection broadcast of two entries of which it could resolve one:
\* it holds a selection and a gizmo and is flagged for resync
C23_Witness ==
    /\ lastOp.op = "MulticastSetSelectedComponents_Implementation"
    /\ lastOp.p \in Proxies
    /\ Len(lastOp.list) = 2
    /\ Null \in Range(lastOp.list)
    /\ part[lastOp.p].SelectedComponents # <<>>
    /\ part[lastOp.p].Gizmo # NoGizmo
    /\ part[lastOp.p].bResyncSelection

\* no remote call is in flight
Quiescent == toServer = <<>> /\ \A q \in Proxies : toClient[q] = <<>>

\* C24: when the participants change state through the replicated entry points only and
\* every message in flight has been delivered, each proxy has the active domain, the
\* transformation kind, the space type, the selection mode and the local-axis-rotation
\* flag of the authority.
C24_ProxiesConvergeToAuthority ==
    Quiescent =>
        \A q \in Proxies :
            /\ part[q].CurrentDomain = part[Authority].CurrentDomain
            /\ part[q].CurrentTransformation = part[Authority].CurrentTransformation
            /\ part[q].CurrentSpaceType = part[Authority].CurrentSpaceType
            /\ part[q].bComponentBased = part[Authority].bComponentBased
            /\ part[q].bRotateOnLocalAxis = part[Authority].bRotateOnLocalAxis

\* the entries of the selection of p that are null or point to a destroyed object
InvalidEntries(p) ==
    {i \in 1..Len(part[p].SelectedComponents) :
        part[p].SelectedComponents[i] = Null \/ part[p].SelectedComponents[i] \notin part[p].alive}

\* C25: the selection never holds two invalid entries at once, and an operation of the
\* component that follows the destruction of a selected object leaves no invalid entry
\* in the selection.
C25_DestroyedEntriesAreDropped ==
    /\ [](\A p \in Participants : Cardinality(InvalidEntries(p)) <= 1)
    /\ [][\A p \in Participants :
             (lastOp'.p = p /\ lastOp'.op # "Destroy") => InvalidEntries(p)' = {}]_vars

\* the focus and unfocus notifications about c among notes, in the order of delivery
FocusNotes(notes, c) == SelectSeq(notes, LAMBDA n : n.c = c /\ n.n \in {"Focus", "Unfocus"})

\* C26: in a fixed selection mode, every operation delivers for each object with the
\* focusable capability an alternating sequence of focus and unfocus notifications that
\* starts with focus exactly when the object was not selected before the operation,
\* with one selection change (selected = true, implements = true) per focus and one
\* (selected = false, implements = true) per unfocus and no other selection change, and
\* the object is selected after the operation exactly when the last of these
\* notifications was focus, or none was delivered and it was selected before.  From the
\* empty selection this gives, over any sequence of operations: the notifications of an
\* object alternate starting with focus, and the object is selected exactly when its
\* last notification was focus.
C26_FocusAndUnfocusAlternate ==
    [][\A c \in Objects :
          LET p == lastOp'.p
              fn == FocusNotes(lastOp'.notes, c)
              before == c \in Range(part[p].SelectedComponents)
              after == c \in Range(part'[p].SelectedComponents)
          IN  (/\ part'[p].bComponentBased = part[p].bComponentBased
               /\ GetUFocusable(part[p], c)) =>
                  /\ \A i \in 1..Len(fn) :
                        fn[i].n = IF (i % 2 = 1) = before THEN "Unfocus" ELSE "Focus"
                  /\ Cardinality(NotesAbout(lastOp'.notes, "Focus", c))
                        = Cardinality({i \in 1..Len(lastOp'.notes) :
                              lastOp'.notes[i] = Note("SelectionChange", c, TRUE, TRUE)})
                  /\ Cardinality(NotesAbout(lastOp'.notes, "Unfocus", c))
                        = Cardinality({i \in 1..Len(lastOp'.notes) :
                              lastOp'.notes[i] = Note("SelectionChange", c, FALSE, TRUE)})
                  /\ Cardinality(NotesAbout(lastOp'.notes, "SelectionChange", c)) = Len(fn)
                  /\ after = IF fn = <<>> THEN before ELSE fn[Len(fn)].n = "Focus"]_vars

\* one operation unfocused a selected focusable object and focused it again, next to
\* another selected object
C26_Witness ==
    \E c \in Objects :
        /\ GetUFocusable(part[lastOp.p], c)
        /\ Len(FocusNotes(lastOp.notes, c)) = 2
        /\ FocusNotes(lastOp.notes, c)[1].n = "Unfocus"
        /\ FocusNotes(lastOp.notes, c)[2].n = "Focus"
        /\ c \in Range(part[lastOp.p].SelectedComponents)
        /\ Len(part[lastOp.p].SelectedComponents) = 2

\* C27: ResyncSelection fired while bResyncSelection is false, and
\* CheckUnreplicatedActors fired while UnreplicatedComponentClones is empty, send no
\* message, deliver no notification and leave the participant as it was but for their
\* own timer.
C27_IdlePollOnlyCancelsItsTimer ==
    [][LET p == lastOp'.p
       IN  /\ (lastOp'.op = "ResyncSelection" /\ ~part[p].bResyncSelection) =>
                 /\ lastOp'.out = <<>> /\ lastOp'.notes = <<>>
                 /\ UNCHANGED <<toServer, toClient>>
                 /\ part' = [part EXCEPT ![p].ResyncSelectionTimerHandle = FALSE]
           /\ (lastOp'.op = "CheckUnreplicatedActors"
                  /\ part[p].UnreplicatedComponentClones = <<>>) =>
                 /\ lastOp'.out = <<>> /\ lastOp'.notes = <<>>
                 /\ UNCHANGED <<toServer, toClient>>
                 /\ part' = [part EXCEPT ![p].CheckUnrepTimerHandle = FALSE,
                                         ![p].timerElapsed = 0]]_vars

\* the selected objects of p that an applied delta moves
Moved(p) ==
    {sc \in Range(part[p].SelectedComponents) \ {Null} :
        part[p].bForceMobility \/ sc \in part[p].Movable}

\* the transform messages among out
TransformMessages(out) ==
    SelectSeq(out, LAMBDA m : m.t \in {"ServerApplyTransform", "MulticastApplyTransform"})

\* C28: a tick composes into NetworkDeltaTransform exactly the delta it applied to the
\* selected objects; ReplicateFinishTransform sends the NetworkDeltaTransform it finds,
\* once, and resets it to the zero delta; the authority broadcasts the delta it is sent
\* unchanged; and no other step changes NetworkDeltaTransform.  Hence each flush carries
\* the composition of the deltas applied since the previous flush, and every applied
\* delta is in exactly one flush.
C28_FlushCarriesTheTicksSinceLastFlush ==
    [][LET p == lastOp'.p
           net == part[p].NetworkDeltaTransform
       IN  /\ lastOp'.op = "TickComponent" =>
                 /\ \A sc \in Moved(p) :
                       part'[p].NetworkDeltaTransform
                           = net + (part'[p].WorldTransform[sc] - part[p].WorldTransform[sc])
                 /\ \A q \in Participants \ {p} :
                       part'[q].NetworkDeltaTransform = part[q].NetworkDeltaTransform
           /\ lastOp'.op = "ReplicateFinishTransform" =>
                 /\ TransformMessages(lastOp'.out)
                       = << Msg(IF p = Authority THEN "MulticastApplyTransform"
                                ELSE "ServerApplyTransform",
                                TD_None, net, <<>>, FALSE, FALSE) >>
                 /\ part'[p].NetworkDeltaTransform = ZeroDelta
                 /\ \A q \in Participants \ {p} :
                       part'[q].NetworkDeltaTransform = part[q].NetworkDeltaTransform
           /\ (lastOp'.op = "ServerApplyTransform_Implementation" /\ toServer # <<>>
                  /\ toServer' = Tail(toServer)) =>
                 lastOp'.out = << Msg("MulticastApplyTransform", TD_None, Head(toServer).o,
                                      <<>>, FALSE, FALSE) >>
           /\ lastOp'.op \notin {"TickComponent", "ReplicateFinishTransform"} =>
                 \A q \in Participants :
                     part'[q].NetworkDeltaTransform = part[q].NetworkDeltaTransform]_vars

\* the local controller has flushed the composition of two ticks that moved actor 1
C28_Witness ==
    /\ lastOp.op = "ReplicateFinishTransform"
    /\ Len(TransformMessages(lastOp.out)) = 1
    /\ TransformMessages(lastOp.out)[1].o = 2
    /\ part[lastOp.p].WorldTransform[1] = 2
    /\ part[lastOp.p].NetworkDeltaTransform = ZeroDelta

\* C29: on every participant an active domain other than TD_None implies that a gizmo
\* exists and that the selection is not empty.
C29_ActiveDomainHasGizmoAndSelection ==
    \A p \in Participants :
        part[p].CurrentDomain # TD_None =>
            /\ HoldsLiveGizmo(p)
            /\ part[p].SelectedComponents # <<>>

\* C30: whenever a participant holds a gizmo, the progress state last given to that gizmo
\* (false for a gizmo just created) is (CurrentDomain # TD_None), given with the
\* current domain.
C30_GizmoProgressFollowsDomain ==
    \A p \in Participants :
        HoldsLiveGizmo(p) =>
            /\ part[p].Gizmo.progress = (part[p].CurrentDomain # TD_None)
            /\ part[p].Gizmo.domain = part[p].CurrentDomain

\* C31: a participant that is not flagged for resync right after it applied
\* MulticastSetSelectedComponents(list) has the list as its selection, element for
\* element and in the same order.
C31_EqualCountsMeanEqualSelection ==
    [][(/\ lastOp'.op = "MulticastSetSelectedComponents_Implementation"
        /\ ~part'[lastOp'.p].bResyncSelection) =>
            part'[lastOp'.p].SelectedComponents = lastOp'.list]_vars

\* a proxy applied a broadcast of three references, resolved them all and is not flagged
C31_Witness ==
    /\ lastOp.op = "MulticastSetSelectedComponents_Implementation"
    /\ Len(lastOp.list) = 3
    /\ ~part[lastOp.p].bResyncSelection
    /\ part[lastOp.p].SelectedComponents = lastOp.list

\* the requests in out, whichever trace the request asks for
Requests(out) ==
    [i \in 1..Len(out) |->
        IF out[i].t \in {"ServerTraceByObjectTypes", "ServerTraceByChannel", "ServerTraceByProfile"}
        THEN [out[i] EXCEPT !.t = "ServerTraceBy"] ELSE out[i]]

\* C32: ReplicatedMouseTraceByChannel and ReplicatedMouseTraceByProfile send the
\* requests that ReplicatedMouseTraceByObjectTypes sends from the same state, for the
\* same ray and the same append flag; a proxy's missed trace without append sends one
\* ServerDeselectAll and nothing else.
C32_TraceEntryPointsSendTheSameRequests ==
    [][lastOp'.op \in {"ReplicatedMouseTraceByChannel", "ReplicatedMouseTraceByProfile"} =>
          /\ Requests(lastOp'.out)
                = Requests(ReplicatedMouseTraceByObjectTypes(
                               part[lastOp'.p], lastOp'.p, Ray(lastCall'.g, lastOp'.c),
                               lastOp'.b).out)
          /\ (lastOp'.p # Authority /\ ~lastCall'.hit /\ ~lastOp'.b) =>
                 /\ Len(lastOp'.out) = 1
                 /\ lastOp'.out[1].t = "ServerDeselectAll"]_vars

\* the root components of the actors that own the entries of list
RootsOfOwners(st, list) == {GetRootComponent(GetOwner(st, c)) : c \in Range(list)}

\* C33: after SetComponentBased(false) the selection holds, once each, the root
\* component of every actor that owned a component selected before; after
\* SetComponentBased(true) it holds the components selected before.
C33_SetComponentBasedRebuildsSelection ==
    [][lastOp'.op = "SetComponentBased" =>
          /\ NoDuplicates(part'[lastOp'.p].SelectedComponents)
          /\ Range(part'[lastOp'.p].SelectedComponents)
                = IF lastOp'.b
                  THEN Range(part[lastOp'.p].SelectedComponents)
                  ELSE RootsOfOwners(part[lastOp'.p], part[lastOp'.p].SelectedComponents)]_vars

\* the clear-domain and apply-transform calls proxy q has still to receive, in the order
\* of their arrival: the broadcasts in flight, then those the authority will make for the
\* requests in flight
FinishCalls(q) ==
    LET stream == toClient[q] \o toServer
        finish == SelectSeq(stream, LAMBDA m :
                      m.t \in {"ServerClearDomain", "MulticastClearDomain",
                               "ServerApplyTransform", "MulticastApplyTransform"})
    IN  [i \in 1..Len(finish) |->
            IF finish[i].t \in {"ServerClearDomain", "MulticastClearDomain"}
            THEN "ClearDomain" ELSE "ApplyTransform"]

\* C34: the delta of a transformation ended by ReplicateFinishTransform is applied once
\* on every participant.  The world transforms of the local controller's participant
\* change in its own ticks only, so it ignores MulticastApplyTransform; those of every
\* other participant change only when it runs MulticastApplyTransform, which moves every
\* selected object that can move by the delta received, once; and the clear-domain call
\* of a ReplicateFinishTransform reaches a participant before its apply-transform call.
C34_GestureDeltaAppliedOncePerParticipant ==
    /\ [](\A q \in Proxies : \A i \in 1..Len(FinishCalls(q)) :
              /\ FinishCalls(q)[i] = "ClearDomain" =>
                     i < Len(FinishCalls(q)) /\ FinishCalls(q)[i + 1] = "ApplyTransform"
              /\ (FinishCalls(q)[i] = "ApplyTransform" /\ i > 1) =>
                     FinishCalls(q)[i - 1] = "ClearDomain")
    /\ [][\A p \in Participants :
              /\ part'[p].WorldTransform # part[p].WorldTransform =>
                     /\ lastOp'.p = p
                     /\ lastOp'.op \in IF IsLocalController(p) THEN {"TickComponent"}
                                       ELSE {"MulticastApplyTransform_Implementation",
                                             "ServerApplyTransform_Implementation"}
              /\ (/\ lastOp'.p = p /\ ~IsLocalController(p)
                  /\ lastOp'.op \in {"MulticastApplyTransform_Implementation",
                                     "ServerApplyTransform_Implementation"}) =>
                     \A d \in AppliedDeltas(p) : \A sc \in BaseObjects :
                         part'[p].WorldTransform[sc]
                             = part[p].WorldTransform[sc] + IF sc \in Moved(p) THEN d ELSE 0]_vars

\* the proxy of the local controller moved actor 1 in a tick and flushed; the authority
\* applied the delta, and the proxy has just received the broadcast and ignored it
C34_Witness ==
    /\ LocalController = AutonomousProxy
    /\ lastOp.op = "MulticastApplyTransform_Implementation"
    /\ lastOp.p = AutonomousProxy
    /\ part[AutonomousProxy].WorldTransform[1] = 1
    /\ part[Authority].WorldTransform[1] = 1
    /\ part[AutonomousProxy].NetworkDeltaTransform = ZeroDelta

====
